---- MODULE Spec2Model ----
(***************************************************************************)
(* track-my-money: the dashboard state held by AppContent (transactions,   *)
(* budgetLimits, dateRange, profile.initialBalance) and the derived        *)
(* values computed from it on every render: filteredTransactions and       *)
(* stats (App), spentByCategory / forecast / per-category percent          *)
(* (BudgetView), groupedTransactions (TransactionList); the data store     *)
(* behind financeService and the loadData calls in flight; the Calendar's  *)
(* displayed month and the budget editor of BudgetView.                    *)
(*                                                                         *)
(* Amounts are whole currency units (TransactionForm strips every          *)
(* non-digit from the amount input).  A quotient the code computes in      *)
(* floating point (a percentage) is kept as an exact fraction              *)
(* [num, den]; comparisons against thresholds are done by                  *)
(* cross-multiplication.  A calendar date 'YYYY-MM-DD' is its day ordinal; *)
(* a JavaScript Date is an instant in milliseconds (UTC).                  *)
(***************************************************************************)
EXTENDS Integers, Sequences, FiniteSets, TLC

VARIABLES
    transactions,    \* AppContent state: Transaction[] (kept sorted by date, newest first)
    budgetLimits,    \* AppContent state: BudgetLimits, category -> monthly limit
    dateRange,       \* AppContent state: DateRange, [from, to] instants or NoDate
    initialBalance,  \* profile.initialBalance
    tz,              \* the browser's timezone: local time = UTC + tz (ms)
    nextId,          \* the next identifier the data store hands out
    currency,        \* profile.currency
    dbTransactions,  \* data store: the user's rows of table transactions
    dbLimits,        \* data store: the user's rows of table budget_limits
    loads,           \* the loadData calls made so far, with their two fetches
    dataLoading,     \* AppContent state
    currentMonth,    \* Calendar state: the month displayed (0 = the current month)
    isEditing,       \* BudgetView state
    editedLimits,    \* BudgetView state: the limits held in the editor
    actionLoading,   \* AppContent state
    user,            \* supabase.auth.getUser(): whether a user is signed in
    profileLoaded,   \* UserProvider state: profile is not null
    onboardingCompleted, \* profile.onboardingCompleted
    tourCompleted,   \* profile.tourCompleted
    dbProfile,       \* data store: the user's row of table profiles
    refreshes,       \* the refreshProfile calls in flight, with what they have read
    showDialog,      \* AppTour state: the tour prompt is shown
    timer,           \* AppTour: the timeout that shows the prompt is pending
    lastAdd,         \* history: the last successful add and the list before it
    lastCall         \* history: the handler that ran last, its backend calls, the state before it

vars == <<transactions, budgetLimits, dateRange, initialBalance, tz, nextId,
          currency, dbTransactions, dbLimits, loads, dataLoading,
          currentMonth, isEditing, editedLimits, actionLoading, user,
          profileLoaded, onboardingCompleted, tourCompleted, dbProfile,
          refreshes, showDialog, timer, lastAdd, lastCall>>

(* the session, the flags of the profile and the tour prompt: what the
   handlers of the dashboard leave alone *)
sessionVars == <<user, profileLoaded, onboardingCompleted, tourCompleted,
                 dbProfile, refreshes, showDialog, timer>>

-----------------------------------------------------------------------------
(* Bounds of the model *)

MaxTx == 2          \* transactions added in one behaviour
MaxDay == 3         \* calendar days 1..MaxDay of a month
MaxMonth == 1       \* months displayed: MaxMonth before .. MaxMonth after the current one
MaxLoads == 1       \* loadData calls made in one behaviour
MaxRefreshes == 2   \* refreshProfile calls in flight at one time

(* Program constants *)

MsPerDay == 86400000

Days == 1..MaxDay
NoDate == -1        \* an absent bound of the DateRange (undefined)

TxTypes == {"income", "expense"}

-----------------------------------------------------------------------------
(* Exact fractions for the code's floating-point quotients *)

Frac(n, d) == [num |-> n, den |-> d]
FracEq(a, b) == a.num * b.den = b.num * a.den
FracGtInt(a, k) == a.num > k * a.den
FracIsInt(a, k) == a.num = k * a.den

-----------------------------------------------------------------------------
(* Sequence helpers: Array.prototype.filter / reduce / sort *)

RECURSIVE SumAmounts(_)
SumAmounts(s) ==
    IF s = <<>> THEN 0 ELSE Head(s).amount + SumAmounts(Tail(s))

IsIncome(t) == t.type = "income"
IsExpense(t) == t.type = "expense"

(* new Date('YYYY-MM-DD'): a date-only string is parsed as UTC midnight *)
ParseDate(d) == d * MsPerDay

(* the comparator (a, b) => new Date(b.date) - new Date(a.date): a goes
   before b when it is negative *)
DateCompare(a, b) == ParseDate(b.date) - ParseDate(a.date)

(* insert t into the sorted sequence s behind every element that does not
   compare greater than it (stable) *)
RECURSIVE InsertStable(_, _)
InsertStable(t, s) ==
    IF s = <<>> THEN <<t>>
    ELSE IF DateCompare(Head(s), t) <= 0
         THEN <<Head(s)>> \o InsertStable(t, Tail(s))
         ELSE <<t>> \o s

(* Array.prototype.sort with DateCompare: stable, newest date first *)
RECURSIVE SortByDateDesc(_)
SortByDateDesc(s) ==
    IF s = <<>> THEN <<>>
    ELSE LET n == Len(s)
         IN InsertStable(s[n], SortByDateDesc(SubSeq(s, 1, n - 1)))

-----------------------------------------------------------------------------
(* Date arithmetic of the browser: local time = UTC + zone *)

(* the local calendar day an instant falls on *)
LocalDay(instant, zone) == (instant + zone) \div MsPerDay

(* new Date(year, month, day): local midnight of that calendar day *)
LocalMidnight(day, zone) == day * MsPerDay - zone

(* d.setHours(0, 0, 0, 0) *)
StartOfDay(instant, zone) == LocalMidnight(LocalDay(instant, zone), zone)

(* d.setHours(23, 59, 59, 999) *)
EndOfDay(instant, zone) == LocalMidnight(LocalDay(instant, zone), zone) + MsPerDay - 1

-----------------------------------------------------------------------------
(* App: filteredTransactions and stats *)

(* mutant: the lower bound is not tested *)
InRange_NoLowerBound(t, range, zone) ==
    ParseDate(t.date) <= EndOfDay(range.to, zone)
InRange(t, range, zone) ==
    LET from == StartOfDay(range.from, zone)
        to == EndOfDay(range.to, zone)
        tDate == ParseDate(t.date)
    IN tDate >= from /\ tDate <= to

FilterByRange(txs, range, zone) ==
    IF range.from = NoDate \/ range.to = NoDate THEN txs
    ELSE SelectSeq(txs, LAMBDA t : InRange(t, range, zone))

filteredTransactions == FilterByRange(transactions, dateRange, tz)

TotalIncome(txs) == SumAmounts(SelectSeq(txs, IsIncome))
TotalExpense(txs) == SumAmounts(SelectSeq(txs, IsExpense))
(* mutant: the balance without the initial balance *)
TotalBalance_NoInitial(txs, initial) == TotalIncome(txs) - TotalExpense(txs)
TotalBalance(txs, initial) == initial + TotalIncome(txs) - TotalExpense(txs)
(* mutant: the share of income spent instead of the share kept *)
SavingsRate_OfExpense(txs) ==
    LET totalIncome == TotalIncome(txs)
        totalExpense == TotalExpense(txs)
    IN IF totalIncome > 0
       THEN Frac(totalExpense * 100, totalIncome)
       ELSE Frac(0, 1)
SavingsRate(txs) ==
    LET totalIncome == TotalIncome(txs)
        totalExpense == TotalExpense(txs)
    IN IF totalIncome > 0
       THEN Frac((totalIncome - totalExpense) * 100, totalIncome)
       ELSE Frac(0, 1)

StatsOf(txs, initial) ==
    [totalBalance |-> TotalBalance(txs, initial),
     totalIncome  |-> TotalIncome(txs),
     totalExpense |-> TotalExpense(txs),
     savingsRate  |-> SavingsRate(txs)]

stats == StatsOf(filteredTransactions, initialBalance)

-----------------------------------------------------------------------------
(* BudgetView: spentByCategory, forecast and the per-category percent.
   BudgetView receives the filtered transactions as its transactions prop. *)

(* mutant: incomes are not filtered out *)
ExpenseTx_All(txs) == txs
ExpenseTx(txs) == SelectSeq(txs, IsExpense)

(* one step of expenseTx.forEach: add the amount to the category's entry
   (created at 0 when missing) and to totalSpent *)
AccumulateSpent(acc, t) ==
    LET m == acc.spentByCategory
        before == IF t.category \in DOMAIN m THEN m[t.category] ELSE 0
    IN [spentByCategory |->
            [c \in DOMAIN m \cup {t.category} |->
                IF c = t.category THEN before + t.amount ELSE m[c]],
        totalSpent |-> acc.totalSpent + t.amount]

RECURSIVE ForEachExpense(_, _)
ForEachExpense(acc, s) ==
    IF s = <<>> THEN acc
    ELSE ForEachExpense(AccumulateSpent(acc, Head(s)), Tail(s))

(* BudgetView's stats: { spentByCategory, totalSpent } *)
BudgetStats(txs) ==
    ForEachExpense([spentByCategory |-> <<>>, totalSpent |-> 0], ExpenseTx(txs))

budgetStats == BudgetStats(filteredTransactions)

(* stats.spentByCategory[cat] || 0 *)
SpentByCategory(txs, cat) ==
    LET m == BudgetStats(txs).spentByCategory
    IN IF cat \in DOMAIN m THEN m[cat] ELSE 0

TotalSpent(txs) == BudgetStats(txs).totalSpent

RECURSIVE SumLimits(_, _)
SumLimits(limits, cats) ==
    IF cats = {} THEN 0
    ELSE LET c == CHOOSE x \in cats : TRUE
         IN limits[c] + SumLimits(limits, cats \ {c})

(* mutant: the largest limit instead of the sum of the limits *)
TotalBudget_Largest(limits) ==
    IF DOMAIN limits = {} THEN 0
    ELSE LET c == CHOOSE x \in DOMAIN limits :
                      \A y \in DOMAIN limits : limits[y] <= limits[x]
         IN limits[c]
(* Object.values(budgetLimits).reduce((a, b) => a + b, 0) *)
TotalBudget(limits) == SumLimits(limits, DOMAIN limits)

(* mutant: without a budget every spend counts as the whole budget used *)
PercentUsed_NoBudgetFull(txs, limits) ==
    IF TotalBudget(limits) > 0
    THEN Frac(TotalSpent(txs) * 100, TotalBudget(limits))
    ELSE IF TotalSpent(txs) > 0 THEN Frac(100, 1)
    ELSE Frac(0, 1)
(* mutant: the ratio is not scaled to a percentage *)
PercentUsed_NoScale(txs, limits) ==
    IF TotalBudget(limits) > 0
    THEN Frac(TotalSpent(txs), TotalBudget(limits))
    ELSE Frac(0, 1)
PercentUsed(txs, limits) ==
    IF TotalBudget(limits) > 0
    THEN Frac(TotalSpent(txs) * 100, TotalBudget(limits))
    ELSE Frac(0, 1)

(* mutant: the thresholds are reached at 85 and at 100 *)
StatusOf_AtLeast(percentUsed) ==
    IF ~FracGtInt(Frac(100 * percentUsed.den, 1), percentUsed.num) THEN "danger"
    ELSE IF ~FracGtInt(Frac(85 * percentUsed.den, 1), percentUsed.num) THEN "warning"
    ELSE "good"
StatusOf(percentUsed) ==
    IF FracGtInt(percentUsed, 100) THEN "danger"
    ELSE IF FracGtInt(percentUsed, 85) THEN "warning"
    ELSE "good"

Forecast(txs, limits) ==
    [totalBudget     |-> TotalBudget(limits),
     remainingBudget |-> TotalBudget(limits) - TotalSpent(txs),
     status          |-> StatusOf(PercentUsed(txs, limits)),
     percentUsed     |-> PercentUsed(txs, limits)]

forecast == Forecast(filteredTransactions, budgetLimits)

(* editedLimits[cat] || 0 *)
LimitOf(limits, cat) == IF cat \in DOMAIN limits THEN limits[cat] ELSE 0

(* mutant: no cap *)
MinHundred_NoCap(a) == a
(* Math.min(a, 100) on a fraction *)
MinHundred(a) == IF FracGtInt(a, 100) THEN Frac(100, 1) ELSE a

(* mutant: a category without a limit is shown as used up *)
CategoryPercent_ZeroLimitFull(txs, limits, cat) ==
    LET spent == SpentByCategory(txs, cat)
        limit == LimitOf(limits, cat)
    IN IF limit > 0 THEN MinHundred(Frac(spent * 100, limit))
       ELSE Frac(100, 1)
(* the percent shown on a category card *)
CategoryPercent(txs, limits, cat) ==
    LET spent == SpentByCategory(txs, cat)
        limit == LimitOf(limits, cat)
    IN IF limit > 0 THEN MinHundred(Frac(spent * 100, limit))
       ELSE IF spent > 0 THEN Frac(100, 1)
       ELSE Frac(0, 1)

(* the categories listed: Object.keys(editedLimits), equal to budgetLimits
   while the editor is closed *)
categories == DOMAIN budgetLimits

-----------------------------------------------------------------------------
(* TransactionList: groupedTransactions.  TransactionList receives the
   filtered transactions as its transactions prop. *)

(* mutant: a later transaction of a date replaces the group of that date *)
PushToGroup_Overwrite(acc, t) ==
    LET g == acc.groups
    IN [keys   |-> IF t.date \in DOMAIN g THEN acc.keys
                   ELSE Append(acc.keys, t.date),
        groups |-> [d \in DOMAIN g \cup {t.date} |->
                       IF d = t.date THEN <<t>> ELSE g[d]]]
(* one step of transactions.forEach: create the group of t.date when it is
   missing, then push t onto it.  keys is Object.keys(groups): the dates in
   the order in which their groups were created *)
PushToGroup(acc, t) ==
    LET g == acc.groups
    IN IF t.date \in DOMAIN g
       THEN [keys   |-> acc.keys,
             groups |-> [g EXCEPT ![t.date] = Append(@, t)]]
       ELSE [keys   |-> Append(acc.keys, t.date),
             groups |-> [d \in DOMAIN g \cup {t.date} |->
                            IF d = t.date THEN <<t>> ELSE g[d]]]

RECURSIVE ForEachGroup(_, _)
ForEachGroup(acc, s) ==
    IF s = <<>> THEN acc
    ELSE ForEachGroup(PushToGroup(acc, Head(s)), Tail(s))

(* mutant: the comparator of an ascending sort *)
KeyCompare_Ascending(a, b) == ParseDate(a) - ParseDate(b)
(* the comparator (a, b) => new Date(b).getTime() - new Date(a).getTime() *)
KeyCompare(a, b) == ParseDate(b) - ParseDate(a)

RECURSIVE InsertKey(_, _)
InsertKey(k, s) ==
    IF s = <<>> THEN <<k>>
    ELSE IF KeyCompare(Head(s), k) <= 0
         THEN <<Head(s)>> \o InsertKey(k, Tail(s))
         ELSE <<k>> \o s

(* Object.keys(groups).sort(KeyCompare) *)
RECURSIVE SortKeysDesc(_)
SortKeysDesc(keys) ==
    IF keys = <<>> THEN <<>>
    ELSE LET n == Len(keys)
         IN InsertKey(keys[n], SortKeysDesc(SubSeq(keys, 1, n - 1)))

(* txs.filter(t => t.type === 'expense').reduce((sum, t) => sum + t.amount, 0) *)
DailyExpense(txs) == SumAmounts(SelectSeq(txs, IsExpense))

GroupedTransactions(txs) ==
    LET acc == ForEachGroup([keys |-> <<>>, groups |-> <<>>], txs)
        sortedDates == SortKeysDesc(acc.keys)
    IN [i \in 1..Len(sortedDates) |->
            [date         |-> sortedDates[i],
             transactions |-> acc.groups[sortedDates[i]],
             dailyExpense |-> DailyExpense(acc.groups[sortedDates[i]])]]

groupedTransactions == GroupedTransactions(filteredTransactions)

-----------------------------------------------------------------------------
(* financeService: the data store *)

(* a call of financeService is answered with a reply: error is the message
   of what it throws ("" when it returns), data is what it returns, stored
   is the table it writes after the call.  ok says whether the store
   carries out the request. *)

(* DEFAULT_SETTINGS: the fields of the profile the model keeps *)
DEFAULT_SETTINGS ==
    [currency |-> "IDR", initialBalance |-> 0,
     onboardingCompleted |-> FALSE, tourCompleted |-> FALSE]

(* new Error("User not authenticated") *)
NotAuthenticated == "User not authenticated"

(* financeService.addTransaction: the store returns the row with its id *)
Added(newTx) == [id |-> nextId] @@ newTx

(* mutant: the row is inserted without asking who is signed in *)
addTransaction_NoUserCheck(transaction, ok) ==
    IF ~ok THEN [error |-> "insert failed", stored |-> dbTransactions]
    ELSE [error  |-> "",
          data   |-> Added(transaction),
          stored |-> dbTransactions \cup {Added(transaction)}]
addTransaction(transaction, ok) ==
    IF ~user THEN [error |-> NotAuthenticated, stored |-> dbTransactions]
    ELSE IF ~ok THEN [error |-> "insert failed", stored |-> dbTransactions]
    ELSE [error  |-> "",
          data   |-> Added(transaction),
          stored |-> dbTransactions \cup {Added(transaction)}]

(* financeService.deleteTransaction *)
deleteTransaction(id, ok) ==
    IF ~ok THEN [error |-> "delete failed", stored |-> dbTransactions]
    ELSE [error |-> "", stored |-> {t \in dbTransactions : t.id # id}]

(* .upsert(upsertData, { onConflict: 'user_id, category' }): one row per
   category of limits is written, every other row stays *)
Upsert(rows, limits) ==
    [c \in DOMAIN rows \cup DOMAIN limits |->
        IF c \in DOMAIN limits THEN limits[c] ELSE rows[c]]

(* financeService.updateBudgetLimits: with no entry to write it returns
   before the upsert *)
updateBudgetLimits(limits, ok) ==
    IF ~user THEN [error |-> NotAuthenticated, stored |-> dbLimits]
    ELSE IF DOMAIN limits = {} THEN [error |-> "", stored |-> dbLimits]
    ELSE IF ~ok THEN [error |-> "upsert failed", stored |-> dbLimits]
    ELSE [error |-> "", stored |-> Upsert(dbLimits, limits)]

(* financeService.updateUserSettings: the row of the user is replaced *)
updateUserSettings(settings, ok) ==
    IF ~user THEN [error |-> NotAuthenticated, stored |-> dbProfile]
    ELSE IF ~ok THEN [error |-> "upsert failed", stored |-> dbProfile]
    ELSE [error |-> "", data |-> settings, stored |-> settings]

(* financeService.getUserSettings: the row of the user, or the default
   profile when nobody is signed in or the row cannot be read *)
getUserSettings(ok) ==
    IF user /\ ok THEN dbProfile ELSE DEFAULT_SETTINGS

(* generateDemoData() and DEFAULT_CATEGORIES of '../constants': one demo
   transaction and one category stand for the generated ones *)
generateDemoData ==
    <<[amount |-> 1000, type |-> "expense", category |-> "Food",
       description |-> "lunch", date |-> 1]>>
DEFAULT_CATEGORIES == {"Food"}

DemoLimit == 2000000        \* amount of every demo budget
DemoBalance == 10000000     \* initialBalance of the demo profile

(* the rows insert(demoTxs) adds: the store gives each its id *)
DemoRows ==
    {[id |-> nextId + i - 1] @@ generateDemoData[i] :
        i \in DOMAIN generateDemoData}
DemoBudgets == [cat \in DEFAULT_CATEGORIES |-> DemoLimit]
DemoSettings ==
    [DEFAULT_SETTINGS EXCEPT !.initialBalance = DemoBalance,
                             !.onboardingCompleted = TRUE,
                             !.tourCompleted = TRUE]

(* what the three tables hold after a call *)
Tables(txs, limits, settings) ==
    [transactions |-> txs, limits |-> limits, profile |-> settings]

(* financeService.injectDemoData up to the reload: the demo transactions are
   inserted, the demo budgets upserted, the profile replaced; the first step
   the store does not carry out throws and the steps before it stay *)
injectDemoData(okTx, okBudgets, okSettings) ==
    LET inserted == dbTransactions \cup DemoRows
        upserted == Upsert(dbLimits, DemoBudgets)
        settings == updateUserSettings(DemoSettings, okSettings)
    IN IF ~user
       THEN [error  |-> NotAuthenticated,
             stored |-> Tables(dbTransactions, dbLimits, dbProfile)]
       ELSE IF ~okTx
       THEN [error  |-> "insert failed",
             stored |-> Tables(dbTransactions, dbLimits, dbProfile)]
       ELSE IF ~okBudgets
       THEN [error  |-> "upsert failed",
             stored |-> Tables(inserted, dbLimits, dbProfile)]
       ELSE [error  |-> settings.error,
             stored |-> Tables(inserted, upserted, settings.stored)]

(* mutant: every stored amount is multiplied by the exchange rate *)
convertDataCurrency_Rewrite(from, to) ==
    /\ dbTransactions' = {[t EXCEPT !.amount = @ * 2] : t \in dbTransactions}
    /\ UNCHANGED dbLimits
(* financeService.convertDataCurrency: only warns, the stored amounts are
   not converted *)
convertDataCurrency(from, to) == UNCHANGED <<dbTransactions, dbLimits>>

(* the rows of the store in an order .order('date', { ascending: false })
   can return them in: newest date first, rows of one date in any order *)
RowsNewestFirst(rows) ==
    {r \in [1..Cardinality(rows) -> rows] :
        /\ \A i, j \in DOMAIN r : r[i] = r[j] => i = j
        /\ \A i, j \in DOMAIN r : i < j => r[i].date >= r[j].date}

-----------------------------------------------------------------------------
(* UserContext *)

(* the profile object held by UserProvider while it is not null *)
profile ==
    [currency |-> currency, initialBalance |-> initialBalance,
     onboardingCompleted |-> onboardingCompleted,
     tourCompleted |-> tourCompleted]

(* setProfile(p), and AppTour's effect on [profile]: the pending timeout is
   cleared, and a new one is set when onboarding is done and the tour is
   not *)
setProfile(p) ==
    /\ profileLoaded' = TRUE
    /\ currency' = p.currency
    /\ initialBalance' = p.initialBalance
    /\ onboardingCompleted' = p.onboardingCompleted
    /\ tourCompleted' = p.tourCompleted
    /\ timer' = (p.onboardingCompleted /\ ~p.tourCompleted)

(* mutant: the data is converted at every update *)
updateProfileCalls_AlwaysConvert(newProfile) ==
    IF ~profileLoaded THEN <<>>
    ELSE <<"convertDataCurrency", "updateUserSettings">>
(* the calls updateProfile makes to financeService, in order *)
updateProfileCalls(newProfile) ==
    IF ~profileLoaded THEN <<>>
    ELSE IF currency # newProfile.currency
    THEN <<"convertDataCurrency", "updateUserSettings">>
    ELSE <<"updateUserSettings">>

(* updateProfile: nothing without a profile; convertDataCurrency when the
   currency changes, then updateUserSettings and setProfile; a failure is
   thrown to the caller and the profile stays.  The prompt of the tour and
   the refreshes are left to the caller. *)
updateProfile(newProfile, ok) ==
    LET calls == updateProfileCalls(newProfile)
        reply == updateUserSettings(newProfile, ok)
    IN /\ IF \E i \in DOMAIN calls : calls[i] = "convertDataCurrency"
          THEN convertDataCurrency(currency, newProfile.currency)
          ELSE UNCHANGED <<dbTransactions, dbLimits>>
       /\ IF \E i \in DOMAIN calls : calls[i] = "updateUserSettings"
          THEN /\ dbProfile' = reply.stored
               /\ IF reply.error = "" THEN setProfile(reply.data)
                  ELSE UNCHANGED <<profileLoaded, currency, initialBalance,
                                   onboardingCompleted, tourCompleted, timer>>
          ELSE UNCHANGED <<dbProfile, profileLoaded, currency, initialBalance,
                           onboardingCompleted, tourCompleted, timer>>
       /\ UNCHANGED <<transactions, budgetLimits, dateRange, tz, nextId,
                      loads, dataLoading, currentMonth, isEditing,
                      editedLimits, actionLoading, user>>

(* a refreshProfile call waiting for getUserSettings *)
Reading == [state |-> "reading", value |-> <<>>]

(* refreshProfile is called: getUserSettings is on its way.  At most
   MaxRefreshes calls are in flight. *)
refreshProfile ==
    /\ Len(refreshes) < MaxRefreshes
    /\ refreshes' = Append(refreshes, Reading)

(* the store answers the getUserSettings of refresh i; the answer is on its
   way back *)
refreshProfileRead(i, ok) ==
    /\ refreshes[i].state = "reading"
    /\ refreshes' = [refreshes EXCEPT
                        ![i] = [state |-> "read", value |-> getUserSettings(ok)]]
    /\ UNCHANGED <<transactions, budgetLimits, dateRange, initialBalance, tz,
                   nextId, currency, dbTransactions, dbLimits, loads,
                   dataLoading, currentMonth, isEditing, editedLimits,
                   actionLoading, user, profileLoaded, onboardingCompleted,
                   tourCompleted, dbProfile, showDialog, timer>>

(* the await of refresh i returns: setProfile(data) *)
refreshProfileResolve(i) ==
    /\ refreshes[i].state = "read"
    /\ setProfile(refreshes[i].value)
    /\ refreshes' = SubSeq(refreshes, 1, i - 1)
                       \o SubSeq(refreshes, i + 1, Len(refreshes))
    /\ UNCHANGED <<transactions, budgetLimits, dateRange, tz, nextId,
                   dbTransactions, dbLimits, loads, dataLoading, currentMonth,
                   isEditing, editedLimits, actionLoading, user, dbProfile,
                   showDialog>>

(* supabase.auth.getUser() stops returning a user: the session has expired
   or was revoked; the page stays as it is *)
sessionExpires ==
    /\ user
    /\ user' = FALSE
    /\ UNCHANGED <<transactions, budgetLimits, dateRange, initialBalance, tz,
                   nextId, currency, dbTransactions, dbLimits, loads,
                   dataLoading, currentMonth, isEditing, editedLimits,
                   actionLoading, profileLoaded, onboardingCompleted,
                   tourCompleted, dbProfile, refreshes, showDialog, timer>>

-----------------------------------------------------------------------------
(* The handlers of AppContent *)

(* the dateRange AppContent starts with: first day of the month .. now *)
InitialRange(nowDay, timeOfDay, zone) ==
    [from |-> LocalMidnight(1, zone),
     to   |-> LocalMidnight(nowDay, zone) + timeOfDay]

(* window.location.reload(): the page is constructed again.  The state of
   every component is the initial one, the profile is null, the calls in
   flight are forgotten and UserProvider's effect calls refreshProfile. *)
reload(nowDay, timeOfDay) ==
    /\ transactions' = <<>>
    /\ budgetLimits' = <<>>
    /\ dateRange' = InitialRange(nowDay, timeOfDay, tz)
    /\ loads' = <<>>
    /\ dataLoading' = TRUE
    /\ actionLoading' = FALSE
    /\ currentMonth' = 0
    /\ isEditing' = FALSE
    /\ editedLimits' = <<>>
    /\ profileLoaded' = FALSE
    /\ currency' = DEFAULT_SETTINGS.currency
    /\ initialBalance' = DEFAULT_SETTINGS.initialBalance
    /\ onboardingCompleted' = DEFAULT_SETTINGS.onboardingCompleted
    /\ tourCompleted' = DEFAULT_SETTINGS.tourCompleted
    /\ refreshes' = <<Reading>>
    /\ showDialog' = FALSE
    /\ timer' = FALSE

(* mutant: setActionLoading(false) only after a success *)
handleAddTransaction_NoFinally(newTx, ok) ==
    LET reply == addTransaction(newTx, ok)
    IN
    /\ nextId <= MaxTx
    /\ dbTransactions' = reply.stored
    /\ IF reply.error = ""
       THEN /\ transactions' = SortByDateDesc(<<reply.data>> \o transactions)
            /\ nextId' = nextId + 1
            /\ actionLoading' = FALSE
       ELSE /\ UNCHANGED <<transactions, nextId>>
            /\ actionLoading' = TRUE
    /\ UNCHANGED <<budgetLimits, dateRange, initialBalance, tz, currency,
                   dbLimits, loads, dataLoading, currentMonth, isEditing,
                   editedLimits, sessionVars>>
(* handleAddTransaction: setActionLoading(true); on success the returned row
   is put in front and the list is sorted again; on failure only a toast is
   shown; finally setActionLoading(false).  At most MaxTx rows are ever
   inserted. *)
handleAddTransaction(newTx, ok) ==
    LET reply == addTransaction(newTx, ok)
    IN
    /\ nextId <= MaxTx
    /\ dbTransactions' = reply.stored
    /\ IF reply.error = ""
       THEN /\ transactions' = SortByDateDesc(<<reply.data>> \o transactions)
            /\ nextId' = nextId + 1
       ELSE UNCHANGED <<transactions, nextId>>
    /\ actionLoading' = FALSE
    /\ UNCHANGED <<budgetLimits, dateRange, initialBalance, tz, currency,
                   dbLimits, loads, dataLoading, currentMonth, isEditing,
                   editedLimits,
                   sessionVars>>

(* mutant: the newest row is removed, whatever the id *)
handleDeleteTransaction_First(id, confirmed, ok) ==
    /\ \E i \in 1..Len(transactions) : transactions[i].id = id
    /\ IF confirmed /\ ok
       THEN /\ dbTransactions' = {t \in dbTransactions : t.id # id}
            /\ transactions' = Tail(transactions)
       ELSE UNCHANGED <<dbTransactions, transactions>>
    /\ UNCHANGED <<budgetLimits, dateRange, initialBalance, tz, nextId,
                   currency, dbLimits, loads, dataLoading, currentMonth,
                   isEditing, editedLimits,
                   actionLoading, sessionVars>>
(* handleDeleteTransaction: nothing happens unless the user confirms and the
   store deletes the row *)
handleDeleteTransaction(id, confirmed, ok) ==
    LET reply == deleteTransaction(id, ok)
    IN
    /\ \E i \in 1..Len(transactions) : transactions[i].id = id
    /\ IF confirmed
       THEN /\ dbTransactions' = reply.stored
            /\ IF reply.error = ""
               THEN transactions' = SelectSeq(transactions, LAMBDA t : t.id # id)
               ELSE UNCHANGED transactions
       ELSE UNCHANGED <<dbTransactions, transactions>>
    /\ UNCHANGED <<budgetLimits, dateRange, initialBalance, tz, nextId,
                   currency, dbLimits, loads, dataLoading, currentMonth,
                   isEditing, editedLimits,
                   actionLoading, sessionVars>>

(* mutant: the limits are written to the store only; the local limits wait
   for the next load *)
handleUpdateBudgets_NoLocal(newLimits, ok) ==
    LET reply == updateBudgetLimits(newLimits, ok)
    IN
    /\ dbLimits' = reply.stored
    /\ UNCHANGED budgetLimits
    /\ UNCHANGED <<transactions, dateRange, initialBalance, tz, nextId,
                   currency, dbTransactions, loads, dataLoading, currentMonth,
                   actionLoading, sessionVars>>
(* handleUpdateBudgets: updateBudgetLimits then setBudgetLimits; a failure
   is logged and nothing changes.  With no entry to write the service
   returns before the upsert.  The editor (isEditing, editedLimits) is left
   to the caller. *)
handleUpdateBudgets(newLimits, ok) ==
    LET reply == updateBudgetLimits(newLimits, ok)
    IN
    /\ dbLimits' = reply.stored
    /\ IF reply.error = "" THEN budgetLimits' = newLimits
       ELSE UNCHANGED budgetLimits
    /\ UNCHANGED <<transactions, dateRange, initialBalance, tz, nextId,
                   currency, dbTransactions, loads, dataLoading, currentMonth,
                   actionLoading, sessionVars>>

(* handleSaveInitialBalance -> updateProfile({...profile, initialBalance}) *)
handleSaveInitialBalance(num, ok) ==
    /\ updateProfile([profile EXCEPT !.initialBalance = num], ok)
    /\ UNCHANGED <<refreshes, showDialog>>

(* handleInjectDemoData: nothing unless the user confirms; injectDemoData
   writes to the store and reloads the page; when it throws a toast is shown
   and the page stays.  nowDay and timeOfDay are the clock at the reload. *)
handleInjectDemoData(confirmed, okTx, okBudgets, okSettings, nowDay, timeOfDay) ==
    LET reply == injectDemoData(okTx, okBudgets, okSettings)
    IN
    /\ nextId + Len(generateDemoData) - 1 <= MaxTx
    /\ IF confirmed
       THEN /\ dbTransactions' = reply.stored.transactions
            /\ dbLimits' = reply.stored.limits
            /\ dbProfile' = reply.stored.profile
            /\ nextId' = IF reply.stored.transactions = dbTransactions
                         THEN nextId ELSE nextId + Len(generateDemoData)
            /\ IF reply.error = "" THEN reload(nowDay, timeOfDay)
               ELSE UNCHANGED <<transactions, budgetLimits, dateRange, loads,
                                dataLoading, actionLoading, currentMonth,
                                isEditing, editedLimits, profileLoaded,
                                currency, initialBalance, onboardingCompleted,
                                tourCompleted, refreshes, showDialog, timer>>
       ELSE UNCHANGED <<dbTransactions, dbLimits, dbProfile, nextId,
                        transactions, budgetLimits, dateRange, loads,
                        dataLoading, actionLoading, currentMonth, isEditing,
                        editedLimits, profileLoaded, currency, initialBalance,
                        onboardingCompleted, tourCompleted, refreshes,
                        showDialog, timer>>
    /\ UNCHANGED <<tz, user>>

-----------------------------------------------------------------------------
(* OnboardingWizard and AppTour *)

(* OnboardingWizard.handleFinish: updateProfile with the chosen currency and
   onboardingCompleted; after a success onFinish calls refreshProfile; a
   failure is logged *)
handleFinish(cur, ok) ==
    LET newProfile == [profile EXCEPT !.currency = cur,
                                      !.onboardingCompleted = TRUE]
    IN /\ profileLoaded
       /\ ~onboardingCompleted
       /\ updateProfile(newProfile, ok)
       /\ IF updateUserSettings(newProfile, ok).error = ""
          THEN refreshProfile
          ELSE UNCHANGED refreshes
       /\ UNCHANGED showDialog

(* the timeout of AppTour's effect fires: setShowDialog(true) *)
timeout ==
    /\ timer
    /\ timer' = FALSE
    /\ showDialog' = TRUE
    /\ UNCHANGED <<transactions, budgetLimits, dateRange, initialBalance, tz,
                   nextId, currency, dbTransactions, dbLimits, loads,
                   dataLoading, currentMonth, isEditing, editedLimits,
                   actionLoading, user, profileLoaded, onboardingCompleted,
                   tourCompleted, dbProfile, refreshes>>

(* markAsComplete: setShowDialog(false), then updateProfile with
   tourCompleted *)
markAsComplete(ok) ==
    /\ profileLoaded
    /\ showDialog' = FALSE
    /\ updateProfile([profile EXCEPT !.tourCompleted = TRUE], ok)
    /\ UNCHANGED refreshes

(* the buttons of the prompt: both call markAsComplete; startTour then
   drives the tour, which changes nothing of the state *)
startTour(ok) == showDialog /\ markAsComplete(ok)
skipTour(ok) == showDialog /\ markAsComplete(ok)

-----------------------------------------------------------------------------
(* loadData: both fetches are started together; what follows the await runs
   in the same task as the settlement of the fetch that settles Promise.all,
   before any other handler *)

Pending == [state |-> "pending", value |-> <<>>]
IsResolved(fetch) == fetch.state \in {"rows", "empty"}

(* mutant: the results are used as soon as one of the fetches has resolved *)
PromiseAllFulfilled_Any(load) ==
    IsResolved(load.tx) \/ IsResolved(load.limits)
(* Promise.all is fulfilled when both promises are *)
PromiseAllFulfilled(load) ==
    IsResolved(load.tx) /\ IsResolved(load.limits)

(* Promise.all is rejected as soon as one of the promises is *)
PromiseAllRejected(load) ==
    load.tx.state = "rejected" \/ load.limits.state = "rejected"

(* the record kept of a load that has settled: the results are not read
   again *)
Settled(load, phase) ==
    [tx     |-> [state |-> load.tx.state, value |-> <<>>],
     limits |-> [state |-> load.limits.state, value |-> <<>>],
     phase  |-> phase]

(* useEffect(() => { if (profile) loadData() }, [profile]): setDataLoading(true)
   and the two calls of financeService.  At most MaxLoads calls are made. *)
loadData ==
    /\ profileLoaded
    /\ Len(loads) < MaxLoads
    /\ loads' = Append(loads, [tx |-> Pending, limits |-> Pending,
                               phase |-> "fetching"])
    /\ dataLoading' = TRUE
    /\ UNCHANGED <<transactions, budgetLimits, dateRange, initialBalance, tz,
                   nextId, currency, dbTransactions, dbLimits, currentMonth,
                   isEditing, editedLimits,
                   actionLoading, sessionVars>>

(* mutant: the limits that were loaded replace what is being edited *)
loadDataResolve_OverwriteEdits(i, load) ==
    /\ transactions' = SortByDateDesc(load.tx.value)
    /\ budgetLimits' = load.limits.value
    /\ editedLimits' = load.limits.value
    /\ dataLoading' = FALSE
    /\ loads' = [loads EXCEPT ![i] = Settled(load, "applied")]
(* loadData after a fulfilled await: setTransactions(sorted txData),
   setBudgetLimits(budgetData), finally setDataLoading(false).  BudgetView's
   effect copies the new limits into a closed editor. *)
loadDataResolve(i, load) ==
    /\ transactions' = SortByDateDesc(load.tx.value)
    /\ budgetLimits' = load.limits.value
    /\ editedLimits' = IF isEditing THEN editedLimits ELSE load.limits.value
    /\ dataLoading' = FALSE
    /\ loads' = [loads EXCEPT ![i] = Settled(load, "applied")]

(* mutant: no finally, dataLoading stays true after a failure *)
loadDataCatch_NoFinally(i, load) ==
    /\ loads' = [loads EXCEPT ![i] = Settled(load, "caught")]
    /\ UNCHANGED <<transactions, budgetLimits, editedLimits, dataLoading>>
(* loadData's catch and finally: the error is logged, nothing is replaced,
   setDataLoading(false) *)
loadDataCatch(i, load) ==
    /\ dataLoading' = FALSE
    /\ loads' = [loads EXCEPT ![i] = Settled(load, "caught")]
    /\ UNCHANGED <<transactions, budgetLimits, editedLimits>>

(* load i after one of its fetches has settled, load being its new record:
   the catch when Promise.all is rejected, the rest of the try block when it
   is fulfilled, otherwise the await goes on *)
loadDataAwait(i, load) ==
    /\ IF PromiseAllRejected(load) THEN loadDataCatch(i, load)
       ELSE IF PromiseAllFulfilled(load) THEN loadDataResolve(i, load)
       ELSE /\ loads' = [loads EXCEPT ![i] = load]
            /\ UNCHANGED <<transactions, budgetLimits, editedLimits, dataLoading>>
    /\ UNCHANGED <<dateRange, initialBalance, tz, nextId, currency,
                   dbTransactions, dbLimits, currentMonth, isEditing,
                   actionLoading, sessionVars>>

(* financeService.getTransactions settles for load i: with the rows of the
   store, with [] when the store reports an error or no user, or by
   throwing.  A fetch that settles after loadData has ended in its catch is
   not observed. *)
getTransactions(i, outcome) ==
    /\ loads[i].phase = "fetching"
    /\ loads[i].tx.state = "pending"
    /\ ~user => outcome = "empty"
    /\ \E r \in IF outcome = "rows" THEN RowsNewestFirst(dbTransactions)
                ELSE {<<>>} :
           loadDataAwait(i, [loads[i] EXCEPT
                                !.tx = [state |-> outcome, value |-> r]])

(* financeService.getBudgetLimits settles for load i: with the limits of the
   store, with {} when the store reports an error or no user, or by
   throwing *)
getBudgetLimits(i, outcome) ==
    /\ loads[i].phase = "fetching"
    /\ loads[i].limits.state = "pending"
    /\ ~user => outcome = "empty"
    /\ loadDataAwait(i, [loads[i] EXCEPT
                            !.limits = [state |-> outcome,
                                        value |-> IF outcome = "rows"
                                                  THEN dbLimits ELSE <<>>]])

-----------------------------------------------------------------------------
(* DateRangePicker: the Calendar *)

(* the month a calendar day belongs to: month m holds the days
   m * MaxDay + 1 .. (m + 1) * MaxDay *)
MonthOf(day) == (day - 1) \div MaxDay

(* the Calendar is mounted when the picker opens:
   useState(new Date(date.from || new Date())) *)
openCalendar ==
    /\ currentMonth' = IF dateRange.from # NoDate
                       THEN MonthOf(LocalDay(dateRange.from, tz))
                       ELSE 0
    /\ UNCHANGED <<transactions, budgetLimits, dateRange, initialBalance, tz,
                   nextId, currency, dbTransactions, dbLimits, loads,
                   dataLoading, isEditing, editedLimits,
                   actionLoading, sessionVars>>

(* handlePrevMonth; MaxMonth months back at most *)
handlePrevMonth ==
    /\ currentMonth > -MaxMonth
    /\ currentMonth' = currentMonth - 1
    /\ UNCHANGED <<transactions, budgetLimits, dateRange, initialBalance, tz,
                   nextId, currency, dbTransactions, dbLimits, loads,
                   dataLoading, isEditing, editedLimits,
                   actionLoading, sessionVars>>

(* handleNextMonth; MaxMonth months ahead at most *)
handleNextMonth ==
    /\ currentMonth < MaxMonth
    /\ currentMonth' = currentMonth + 1
    /\ UNCHANGED <<transactions, budgetLimits, dateRange, initialBalance, tz,
                   nextId, currency, dbTransactions, dbLimits, loads,
                   dataLoading, isEditing, editedLimits,
                   actionLoading, sessionVars>>

(* mutant: the clicked day always becomes the end of the range *)
handleDateClick_NoSwap(day) ==
    LET clickedDate == LocalMidnight(currentMonth * MaxDay + day, tz)
    IN /\ dateRange' = [from |-> dateRange.from, to |-> clickedDate]
       /\ UNCHANGED <<transactions, budgetLimits, initialBalance, tz, nextId,
                      currency, dbTransactions, dbLimits, loads, dataLoading,
                      currentMonth, isEditing, editedLimits,
                      actionLoading, sessionVars>>
(* Calendar.handleDateClick on a day of the displayed month *)
handleDateClick(day) ==
    LET clickedDate == LocalMidnight(currentMonth * MaxDay + day, tz)
    IN /\ dateRange' =
            IF dateRange.from # NoDate /\ dateRange.to # NoDate
            THEN [from |-> clickedDate, to |-> clickedDate]
            ELSE IF dateRange.from # NoDate
            THEN IF clickedDate < dateRange.from
                 THEN [from |-> clickedDate, to |-> dateRange.from]
                 ELSE [from |-> dateRange.from, to |-> clickedDate]
            ELSE [from |-> clickedDate, to |-> clickedDate]
       /\ UNCHANGED <<transactions, budgetLimits, initialBalance, tz, nextId,
                      currency, dbTransactions, dbLimits, loads, dataLoading,
                      currentMonth, isEditing, editedLimits,
                      actionLoading, sessionVars>>

-----------------------------------------------------------------------------
(* BudgetView: the budget editor.  A text is the sequence of its
   characters. *)

IsDigit(c) == c \in {"0", "1", "2", "3", "4", "5", "6", "7", "8", "9"}
DigitValue(c) ==
    CASE c = "0" -> 0 [] c = "1" -> 1 [] c = "2" -> 2 [] c = "3" -> 3
      [] c = "4" -> 4 [] c = "5" -> 5 [] c = "6" -> 6 [] c = "7" -> 7
      [] c = "8" -> 8 [] c = "9" -> 9

(* the digits a text starts with: how many, and their decimal value *)
RECURSIVE LeadingDigits(_, _)
LeadingDigits(text, acc) ==
    IF text = <<>> \/ ~IsDigit(Head(text)) THEN acc
    ELSE LeadingDigits(Tail(text),
                       [count |-> acc.count + 1,
                        value |-> acc.value * 10 + DigitValue(Head(text))])

(* parseFloat on a text of signs, digits and other characters: an optional
   sign, then the leading digits; NaN without a digit *)
ParseFloat(text) ==
    LET signed == text # <<>> /\ Head(text) \in {"-", "+"}
        digits == LeadingDigits(IF signed THEN Tail(text) ELSE text,
                                [count |-> 0, value |-> 0])
    IN IF digits.count = 0 THEN [nan |-> TRUE, value |-> 0]
       ELSE [nan   |-> FALSE,
             value |-> IF signed /\ Head(text) = "-"
                       THEN 0 - digits.value ELSE digits.value]

(* x || 0: NaN and 0 are falsy *)
OrZero(x) == IF x.nan \/ x.value = 0 THEN 0 ELSE x.value

(* getDaysInMonth(): months of the model have MaxDay days *)
daysInMonth == MaxDay

(* newCategoryName.trim() on the names of the model *)
Trim(name) ==
    CASE name = " " -> ""
      [] name = " Other " -> "Other"
      [] OTHER -> name

(* the Edit button: setIsEditing(true) *)
startEditing ==
    /\ ~isEditing
    /\ isEditing' = TRUE
    /\ UNCHANGED <<transactions, budgetLimits, dateRange, initialBalance, tz,
                   nextId, currency, dbTransactions, dbLimits, loads,
                   dataLoading, currentMonth, editedLimits,
                   actionLoading, sessionVars>>

(* the Cancel button: setIsEditing(false); setEditedLimits(budgetLimits) *)
cancelEditing ==
    /\ isEditing
    /\ isEditing' = FALSE
    /\ editedLimits' = budgetLimits
    /\ UNCHANGED <<transactions, budgetLimits, dateRange, initialBalance, tz,
                   nextId, currency, dbTransactions, dbLimits, loads,
                   dataLoading, currentMonth,
                   actionLoading, sessionVars>>

(* handleLimitChange, from the monthly-limit input of a listed category *)
handleLimitChange(category, value) ==
    /\ isEditing
    /\ category \in DOMAIN editedLimits
    /\ editedLimits' = [editedLimits EXCEPT ![category] = OrZero(ParseFloat(value))]
    /\ UNCHANGED <<transactions, budgetLimits, dateRange, initialBalance, tz,
                   nextId, currency, dbTransactions, dbLimits, loads,
                   dataLoading, currentMonth, isEditing,
                   actionLoading, sessionVars>>

(* handleDailyTargetChange: Math.round(dailyVal * daysInMonth), a whole
   number already *)
handleDailyTargetChange(category, value) ==
    /\ isEditing
    /\ category \in DOMAIN editedLimits
    /\ editedLimits' = [editedLimits EXCEPT
                           ![category] = OrZero(ParseFloat(value)) * daysInMonth]
    /\ UNCHANGED <<transactions, budgetLimits, dateRange, initialBalance, tz,
                   nextId, currency, dbTransactions, dbLimits, loads,
                   dataLoading, currentMonth, isEditing,
                   actionLoading, sessionVars>>

(* handleAddCategory: a blank name is ignored, the trimmed name is entered
   with limit 0 *)
handleAddCategory(newCategoryName) ==
    LET name == Trim(newCategoryName)
    IN /\ isEditing
       /\ IF name = "" THEN UNCHANGED editedLimits
          ELSE editedLimits' = [c \in DOMAIN editedLimits \cup {name} |->
                                   IF c = name THEN 0 ELSE editedLimits[c]]
       /\ UNCHANGED <<transactions, budgetLimits, dateRange, initialBalance,
                      tz, nextId, currency, dbTransactions, dbLimits, loads,
                      dataLoading, currentMonth, isEditing,
                      actionLoading, sessionVars>>

(* handleDeleteCategory *)
handleDeleteCategory(cat) ==
    /\ isEditing
    /\ cat \in DOMAIN editedLimits
    /\ editedLimits' = [c \in DOMAIN editedLimits \ {cat} |-> editedLimits[c]]
    /\ UNCHANGED <<transactions, budgetLimits, dateRange, initialBalance, tz,
                   nextId, currency, dbTransactions, dbLimits, loads,
                   dataLoading, currentMonth, isEditing,
                   actionLoading, sessionVars>>

(* handleSave: await onUpdateLimits(editedLimits), then setIsEditing(false);
   the effect then copies budgetLimits into the closed editor *)
handleSave(ok) ==
    /\ isEditing
    /\ handleUpdateBudgets(editedLimits, ok)
    /\ isEditing' = FALSE
    /\ editedLimits' = budgetLimits'

-----------------------------------------------------------------------------
(* Input domains *)

TimeZones == {-18000000, 0, 25200000}     \* UTC-5, UTC, UTC+7
TimesOfDay == {0, 43200000}               \* midnight, noon

TxInputs(amounts, cats, days) ==
    [amount : amounts, type : TxTypes, category : cats,
     description : {"lunch"}, date : days]

LimitInputs(cats, values) ==
    UNION {[sub -> values] : sub \in SUBSET cats}

NoAdd == [id |-> 0, before |-> <<>>, undone |-> FALSE]
NoCall == [handler |-> "none", input |-> <<>>, confirmed |-> FALSE,
           ok |-> FALSE, error |-> ""]

TypeOK ==
    /\ Len(transactions) <= MaxTx
    /\ nextId \in 1..(MaxTx + 1)
    /\ tz \in TimeZones
    /\ initialBalance \in Nat
    /\ currency \in {"IDR", "USD"}
    /\ Cardinality(dbTransactions) <= MaxTx
    /\ Len(loads) <= MaxLoads
    /\ dataLoading \in BOOLEAN
    /\ currentMonth \in (0 - MaxMonth)..MaxMonth
    /\ isEditing \in BOOLEAN
    /\ actionLoading \in BOOLEAN
    /\ user \in BOOLEAN
    /\ profileLoaded \in BOOLEAN
    /\ onboardingCompleted \in BOOLEAN
    /\ tourCompleted \in BOOLEAN
    /\ showDialog \in BOOLEAN
    /\ timer \in BOOLEAN

(* Every specification of the dashboard starts from the state AppContent is
   constructed in for a signed-in user whose profile has been loaded, with
   onboarding and tour done, and whose store is empty. *)
InitWith(zones, nowDays, times) ==
    /\ transactions = <<>>
    /\ budgetLimits = <<>>
    /\ initialBalance = 0
    /\ nextId = 1
    /\ currency = "IDR"
    /\ dbTransactions = {}
    /\ dbLimits = <<>>
    /\ loads = <<>>
    /\ dataLoading = TRUE
    /\ currentMonth = 0
    /\ isEditing = FALSE
    /\ editedLimits = <<>>
    /\ actionLoading = FALSE
    /\ user = TRUE
    /\ profileLoaded = TRUE
    /\ onboardingCompleted = TRUE
    /\ tourCompleted = TRUE
    /\ dbProfile = [DEFAULT_SETTINGS EXCEPT !.onboardingCompleted = TRUE,
                                            !.tourCompleted = TRUE]
    /\ refreshes = <<>>
    /\ showDialog = FALSE
    /\ timer = FALSE
    /\ lastAdd = NoAdd
    /\ lastCall = NoCall
    /\ tz \in zones
    /\ \E nowDay \in nowDays, tod \in times :
           dateRange = InitialRange(nowDay, tod, tz)

-----------------------------------------------------------------------------
(* Spec: the dashboard totals.  Transactions of both types on every day,
   range selection, initial balance. *)

StatsAmounts == {400, 1000}
BalanceInputs == {0, 500}

Init == InitWith(TimeZones, Days, TimesOfDay)

AddStats == /\ \E newTx \in TxInputs(StatsAmounts, {"Food"}, Days), ok \in BOOLEAN :
                  handleAddTransaction(newTx, ok)
            /\ UNCHANGED <<lastAdd, lastCall>>
Delete == /\ \E i \in 1..Len(transactions), confirmed \in BOOLEAN, ok \in BOOLEAN :
                handleDeleteTransaction(transactions[i].id, confirmed, ok)
          /\ UNCHANGED <<lastAdd, lastCall>>
SaveBalance == /\ \E num \in BalanceInputs, ok \in BOOLEAN :
                     handleSaveInitialBalance(num, ok)
               /\ UNCHANGED <<lastAdd, lastCall>>
DateClick == /\ \E day \in Days : handleDateClick(day)
             /\ UNCHANGED <<lastAdd, lastCall>>

Next == AddStats \/ Delete \/ SaveBalance \/ DateClick

Spec == Init /\ [][Next]_vars

-----------------------------------------------------------------------------
(* SpecBudget: the budget view.  Expenses and incomes in a category that
   may or may not have a limit, limits of 0 and 1000 per category. *)

BudgetAmounts == {150, 850, 1100}
BudgetCategories == {"Food", "Other"}
LimitValues == {0, 1000}
BudgetDays == {1, 2}
BudgetZones == {-18000000, 25200000}      \* UTC-5, UTC+7

(* opened on day 2 at noon: the initial range is day 1 .. day 2 *)
InitBudget == InitWith(BudgetZones, {2}, {43200000})

(* expenses of every amount in both categories on both days; incomes, which
   the budget view leaves out, of one amount on one day *)
BudgetTxInputs ==
    {t \in TxInputs(BudgetAmounts, BudgetCategories, BudgetDays) :
        t.type = "income" => (t.amount = 150 /\ t.date = 2)}

AddBudget == /\ \E newTx \in BudgetTxInputs, ok \in BOOLEAN :
                   handleAddTransaction(newTx, ok)
             /\ UNCHANGED <<lastAdd, lastCall>>
(* the editor is opened, newLimits are entered and saved *)
UpdateBudgets == /\ \E newLimits \in LimitInputs(BudgetCategories, LimitValues),
                          ok \in BOOLEAN :
                       handleUpdateBudgets(newLimits, ok)
                 /\ editedLimits' = budgetLimits'
                 /\ UNCHANGED <<isEditing, lastAdd, lastCall>>

NextBudget == AddBudget \/ Delete \/ UpdateBudgets

SpecBudget == InitBudget /\ [][NextBudget]_vars

-----------------------------------------------------------------------------
(* SpecList: the transaction list.  Incomes and expenses of one amount on
   every day, range selection, initial balance. *)

ListAmounts == {400}

InitList == InitWith({0}, {2}, {43200000})

AddList == /\ \E newTx \in TxInputs(ListAmounts, {"Food"}, Days), ok \in BOOLEAN :
                 handleAddTransaction(newTx, ok)
           /\ UNCHANGED <<lastAdd, lastCall>>

NextList == AddList \/ Delete \/ SaveBalance \/ DateClick

SpecList == InitList /\ [][NextList]_vars

-----------------------------------------------------------------------------
(* SpecUndo: adding and deleting, with the history of the last successful
   add: the id it was given and the list before it.  The history is
   forgotten when another row is deleted; undone records that the added row
   itself has been deleted. *)

UndoAmounts == {400}

AddUndo ==
    \E newTx \in TxInputs(UndoAmounts, {"Food"}, Days), ok \in BOOLEAN :
        /\ handleAddTransaction(newTx, ok)
        /\ lastAdd' = IF ok
                      THEN [id |-> nextId, before |-> transactions, undone |-> FALSE]
                      ELSE lastAdd
        /\ UNCHANGED lastCall

DeleteUndo ==
    \E i \in 1..Len(transactions), confirmed \in BOOLEAN, ok \in BOOLEAN :
        /\ handleDeleteTransaction(transactions[i].id, confirmed, ok)
        /\ lastAdd' = IF ~(confirmed /\ ok) THEN lastAdd
                      ELSE IF transactions[i].id = lastAdd.id /\ ~lastAdd.undone
                      THEN [lastAdd EXCEPT !.undone = TRUE]
                      ELSE NoAdd
        /\ UNCHANGED lastCall

InitUndo == InitWith(TimeZones, {2}, {43200000})

NextUndo == AddUndo \/ DeleteUndo \/ SaveBalance \/ DateClick

SpecUndo == InitUndo /\ [][NextUndo]_vars

-----------------------------------------------------------------------------
(* SpecCalendar: the date range picker.  The calendar is opened, the month
   displayed is changed, days are clicked. *)

InitCalendar == InitWith(TimeZones, Days, TimesOfDay)

OpenCalendar == openCalendar /\ UNCHANGED <<lastAdd, lastCall>>
PrevMonth == handlePrevMonth /\ UNCHANGED <<lastAdd, lastCall>>
NextMonth == handleNextMonth /\ UNCHANGED <<lastAdd, lastCall>>

NextCalendar == OpenCalendar \/ PrevMonth \/ NextMonth \/ DateClick

SpecCalendar == InitCalendar /\ [][NextCalendar]_vars

-----------------------------------------------------------------------------
(* SpecEditor: the budget editor.  Texts of up to two characters are typed
   into the two inputs of a category, categories are added and deleted,
   the edit is saved or cancelled. *)

TextChars == {"-", "5", "x"}
Texts == UNION {[1..n -> TextChars] : n \in 0..2}
CategoryNames == {"", " ", "Food", " Other "}

InitEditor == InitWith({0}, {2}, {43200000})

StartEditing == startEditing /\ UNCHANGED <<lastAdd, lastCall>>
CancelEditing == cancelEditing /\ UNCHANGED <<lastAdd, lastCall>>
LimitChange == /\ \E cat \in DOMAIN editedLimits, value \in Texts :
                     handleLimitChange(cat, value)
               /\ UNCHANGED <<lastAdd, lastCall>>
DailyTargetChange == /\ \E cat \in DOMAIN editedLimits, value \in Texts :
                           handleDailyTargetChange(cat, value)
                     /\ UNCHANGED <<lastAdd, lastCall>>
AddCategory == /\ \E name \in CategoryNames : handleAddCategory(name)
               /\ UNCHANGED <<lastAdd, lastCall>>
DeleteCategory == /\ \E cat \in DOMAIN editedLimits : handleDeleteCategory(cat)
                  /\ UNCHANGED <<lastAdd, lastCall>>
Save == /\ \E ok \in BOOLEAN : handleSave(ok)
        /\ UNCHANGED <<lastAdd, lastCall>>

NextEditor ==
    \/ StartEditing \/ CancelEditing \/ LimitChange \/ DailyTargetChange
    \/ AddCategory \/ DeleteCategory \/ Save

SpecEditor == InitEditor /\ [][NextEditor]_vars

-----------------------------------------------------------------------------
(* SpecLoad: the app with its data store.  Transactions are added and
   deleted, the limits are saved, and loadData runs: its two fetches settle
   one by one, each with the rows of the store, with an empty result or by
   throwing. *)

LoadAmounts == {400}
LoadDays == {1, 2}
(* an expense on day 1, an income on day 2 *)
LoadTxInputs ==
    {t \in TxInputs(LoadAmounts, {"Food"}, LoadDays) :
        t.type = "income" <=> t.date = 2}
Outcomes == {"rows", "empty", "rejected"}

InitLoad == InitWith({0}, {2}, {43200000})

AddLoad == /\ \E newTx \in LoadTxInputs, ok \in BOOLEAN :
                 handleAddTransaction(newTx, ok)
           /\ UNCHANGED <<lastAdd, lastCall>>
UpdateBudgetsLoad == /\ \E newLimits \in LimitInputs({"Food"}, {1000}), ok \in BOOLEAN :
                           handleUpdateBudgets(newLimits, ok)
                     /\ editedLimits' = budgetLimits'
                     /\ UNCHANGED <<isEditing, lastAdd, lastCall>>
LoadData == loadData /\ UNCHANGED <<lastAdd, lastCall>>
GetTransactions == /\ \E i \in 1..Len(loads), outcome \in Outcomes :
                         getTransactions(i, outcome)
                   /\ UNCHANGED <<lastAdd, lastCall>>
GetBudgetLimits == /\ \E i \in 1..Len(loads), outcome \in Outcomes :
                         getBudgetLimits(i, outcome)
                   /\ UNCHANGED <<lastAdd, lastCall>>

NextLoad ==
    \/ AddLoad \/ Delete \/ UpdateBudgetsLoad
    \/ LoadData \/ GetTransactions \/ GetBudgetLimits

SpecLoad == InitLoad /\ [][NextLoad]_vars

-----------------------------------------------------------------------------
(* SpecProfile: the app with its data store and the profile.  As SpecLoad,
   with the currency of the profile saved as well and every fetch answered
   with the rows of the store. *)

Currencies == {"IDR", "USD"}

InitProfile == InitWith({0}, {2}, {43200000})

UpdateProfile == /\ \E cur \in Currencies, ok \in BOOLEAN :
                       updateProfile([profile EXCEPT !.currency = cur], ok)
                 /\ UNCHANGED <<refreshes, showDialog, lastAdd, lastCall>>
FetchTransactions == /\ \E i \in 1..Len(loads) : getTransactions(i, "rows")
                     /\ UNCHANGED <<lastAdd, lastCall>>
FetchBudgetLimits == /\ \E i \in 1..Len(loads) : getBudgetLimits(i, "rows")
                     /\ UNCHANGED <<lastAdd, lastCall>>

NextProfile ==
    \/ AddLoad \/ Delete \/ UpdateBudgetsLoad \/ UpdateProfile
    \/ LoadData \/ FetchTransactions \/ FetchBudgetLimits

SpecProfile == InitProfile /\ [][NextProfile]_vars

-----------------------------------------------------------------------------
(* SpecMutate: the four handlers that write to the store, each answered by
   a store that carries the request out or fails; no load runs.  lastCall
   records the handler that ran last: what it was given, whether the user
   confirmed, whether the store would carry the request out, and the error
   of the reply. *)

MutateBalances == {500}

InitMutate == InitWith({0}, {2}, {43200000})

Called(handler, input, confirmed, ok, error) ==
    [handler |-> handler, input |-> input, confirmed |-> confirmed,
     ok |-> ok, error |-> error]

AddMutate ==
    \E newTx \in LoadTxInputs, ok \in BOOLEAN :
        /\ handleAddTransaction(newTx, ok)
        /\ lastCall' = Called("handleAddTransaction", Added(newTx), TRUE, ok,
                              addTransaction(newTx, ok).error)
        /\ UNCHANGED lastAdd

DeleteMutate ==
    \E i \in 1..Len(transactions), confirmed \in BOOLEAN, ok \in BOOLEAN :
        /\ handleDeleteTransaction(transactions[i].id, confirmed, ok)
        /\ lastCall' = Called("handleDeleteTransaction", transactions[i].id,
                              confirmed, ok,
                              deleteTransaction(transactions[i].id, ok).error)
        /\ UNCHANGED lastAdd

UpdateBudgetsMutate ==
    \E newLimits \in LimitInputs({"Food"}, {1000}), ok \in BOOLEAN :
        /\ handleUpdateBudgets(newLimits, ok)
        /\ editedLimits' = budgetLimits'
        /\ lastCall' = Called("handleUpdateBudgets", newLimits, TRUE, ok,
                              updateBudgetLimits(newLimits, ok).error)
        /\ UNCHANGED <<isEditing, lastAdd>>

SaveBalanceMutate ==
    \E num \in MutateBalances, ok \in BOOLEAN :
        /\ handleSaveInitialBalance(num, ok)
        /\ lastCall' = Called("handleSaveInitialBalance", num, TRUE, ok,
               updateUserSettings([profile EXCEPT !.initialBalance = num],
                                  ok).error)
        /\ UNCHANGED lastAdd

NextMutate ==
    AddMutate \/ DeleteMutate \/ UpdateBudgetsMutate \/ SaveBalanceMutate

SpecMutate == InitMutate /\ [][NextMutate]_vars

-----------------------------------------------------------------------------
(* SpecSync: the budget editor while loadData runs.  One category is added,
   given a limit, deleted; the edit is saved or cancelled; the fetches of a
   load are answered with the rows of the store.  lastCall names the
   control of the editor that was used last. *)

SyncTexts == {<<"5">>}

InitSync == InitWith({0}, {2}, {43200000})

Used(handler) == Called(handler, <<>>, TRUE, TRUE, "")

StartEditingSync ==
    startEditing /\ lastCall' = Used("startEditing") /\ UNCHANGED lastAdd
CancelEditingSync ==
    cancelEditing /\ lastCall' = Used("cancelEditing") /\ UNCHANGED lastAdd
LimitChangeSync ==
    /\ \E cat \in DOMAIN editedLimits, value \in SyncTexts :
           handleLimitChange(cat, value)
    /\ lastCall' = Used("handleLimitChange") /\ UNCHANGED lastAdd
AddCategorySync ==
    handleAddCategory("Food")
        /\ lastCall' = Used("handleAddCategory") /\ UNCHANGED lastAdd
DeleteCategorySync ==
    /\ \E cat \in DOMAIN editedLimits : handleDeleteCategory(cat)
    /\ lastCall' = Used("handleDeleteCategory") /\ UNCHANGED lastAdd
SaveSync ==
    /\ \E ok \in BOOLEAN : handleSave(ok)
    /\ lastCall' = Used("handleSave") /\ UNCHANGED lastAdd
LoadDataSync ==
    loadData /\ lastCall' = Used("loadData") /\ UNCHANGED lastAdd
FetchSync ==
    /\ \E i \in 1..Len(loads) :
           getTransactions(i, "rows") \/ getBudgetLimits(i, "rows")
    /\ lastCall' = Used("loadData") /\ UNCHANGED lastAdd

NextSync ==
    \/ StartEditingSync \/ CancelEditingSync \/ LimitChangeSync
    \/ AddCategorySync \/ DeleteCategorySync \/ SaveSync
    \/ LoadDataSync \/ FetchSync

SpecSync == InitSync /\ [][NextSync]_vars

-----------------------------------------------------------------------------
(* SpecRace: transactions are added and deleted while loadData runs, every
   fetch answered with the rows of the store.  lastCall records the last
   add or delete, with pending telling whether a load was waiting for its
   fetches when the handler ran. *)

LoadPending == \E i \in 1..Len(loads) : loads[i].phase = "fetching"

InitRace == InitWith({0}, {2}, {43200000})

AddRace ==
    \E newTx \in LoadTxInputs, ok \in BOOLEAN :
        /\ handleAddTransaction(newTx, ok)
        /\ lastCall' = Called("handleAddTransaction",
                              [row |-> Added(newTx), pending |-> LoadPending],
                              TRUE, ok, addTransaction(newTx, ok).error)
        /\ UNCHANGED lastAdd

DeleteRace ==
    \E i \in 1..Len(transactions), confirmed \in BOOLEAN, ok \in BOOLEAN :
        /\ handleDeleteTransaction(transactions[i].id, confirmed, ok)
        /\ lastCall' = Called("handleDeleteTransaction",
                              [row |-> transactions[i], pending |-> LoadPending],
                              confirmed, ok,
                              deleteTransaction(transactions[i].id, ok).error)
        /\ UNCHANGED lastAdd

NextRace ==
    AddRace \/ DeleteRace \/ LoadData \/ FetchTransactions \/ FetchBudgetLimits

SpecRace == InitRace /\ [][NextRace]_vars

-----------------------------------------------------------------------------
(* The session of a user: SpecSession and SpecDemo.  Every step records
   itself in lastCall: its name, its input, whether the user confirmed,
   whether the store would carry the request out, and the error of the
   reply. *)

SessionTx ==
    [amount |-> 400, type |-> "expense", category |-> "Rent",
     description |-> "lunch", date |-> 2]
SessionLimits == LimitInputs({"Rent"}, {500})

(* the page as it is constructed after sign-up: nothing stored, no profile,
   refreshProfile on its way *)
InitSession ==
    /\ transactions = <<>>
    /\ budgetLimits = <<>>
    /\ tz = 0
    /\ dateRange = InitialRange(2, 43200000, tz)
    /\ initialBalance = DEFAULT_SETTINGS.initialBalance
    /\ currency = DEFAULT_SETTINGS.currency
    /\ nextId = 1
    /\ dbTransactions = {}
    /\ dbLimits = <<>>
    /\ loads = <<>>
    /\ dataLoading = TRUE
    /\ currentMonth = 0
    /\ isEditing = FALSE
    /\ editedLimits = <<>>
    /\ actionLoading = FALSE
    /\ user = TRUE
    /\ profileLoaded = FALSE
    /\ onboardingCompleted = DEFAULT_SETTINGS.onboardingCompleted
    /\ tourCompleted = DEFAULT_SETTINGS.tourCompleted
    /\ dbProfile = DEFAULT_SETTINGS
    /\ refreshes = <<Reading>>
    /\ showDialog = FALSE
    /\ timer = FALSE
    /\ lastAdd = NoAdd
    /\ lastCall = NoCall

(* the dashboard can be used: the profile is there, neither the wizard nor
   the prompt of the tour covers the page *)
DashboardShown == profileLoaded /\ onboardingCompleted /\ ~showDialog

(* what a caller of updateProfile records: the profile it passed and the
   calls updateProfile made *)
ProfileInput(newProfile) ==
    [newProfile |-> newProfile, calls |-> updateProfileCalls(newProfile)]
ProfileError(newProfile, ok) ==
    IF updateProfileCalls(newProfile) = <<>> THEN ""
    ELSE updateUserSettings(newProfile, ok).error

RefreshReadSession ==
    \E i \in 1..Len(refreshes), ok \in BOOLEAN :
        /\ refreshProfileRead(i, ok)
        /\ lastCall' = Called("getUserSettings", getUserSettings(ok), TRUE,
                              ok, "")
        /\ UNCHANGED lastAdd

RefreshResolveSession ==
    \E i \in 1..Len(refreshes) :
        /\ refreshProfileResolve(i)
        /\ lastCall' = Called("refreshProfile", refreshes[i].value, TRUE,
                              TRUE, "")
        /\ UNCHANGED lastAdd

LoadDataSession ==
    /\ loadData
    /\ lastCall' = Called("loadData", <<>>, TRUE, TRUE, "")
    /\ UNCHANGED lastAdd

GetTransactionsSession ==
    \E i \in 1..Len(loads), outcome \in {"rows", "empty"} :
        /\ getTransactions(i, outcome)
        /\ lastCall' = Called("getTransactions", outcome, TRUE,
                              outcome = "rows", "")
        /\ UNCHANGED lastAdd

GetBudgetLimitsSession ==
    \E i \in 1..Len(loads), outcome \in {"rows", "empty"} :
        /\ getBudgetLimits(i, outcome)
        /\ lastCall' = Called("getBudgetLimits", outcome, TRUE,
                              outcome = "rows", "")
        /\ UNCHANGED lastAdd

FinishSession ==
    \E cur \in Currencies, ok \in BOOLEAN :
        LET newProfile == [profile EXCEPT !.currency = cur,
                                          !.onboardingCompleted = TRUE]
        IN /\ handleFinish(cur, ok)
           /\ lastCall' = Called("handleFinish", ProfileInput(newProfile),
                                 TRUE, ok, ProfileError(newProfile, ok))
           /\ UNCHANGED lastAdd

TimeoutSession ==
    /\ timeout
    /\ lastCall' = Called("timeout", <<>>, TRUE, TRUE, "")
    /\ UNCHANGED lastAdd

StartTourSession ==
    \E ok \in BOOLEAN :
        LET newProfile == [profile EXCEPT !.tourCompleted = TRUE]
        IN /\ startTour(ok)
           /\ lastCall' = Called("startTour", ProfileInput(newProfile), TRUE,
                                 ok, ProfileError(newProfile, ok))
           /\ UNCHANGED lastAdd

SkipTourSession ==
    \E ok \in BOOLEAN :
        LET newProfile == [profile EXCEPT !.tourCompleted = TRUE]
        IN /\ skipTour(ok)
           /\ lastCall' = Called("skipTour", ProfileInput(newProfile), TRUE,
                                 ok, ProfileError(newProfile, ok))
           /\ UNCHANGED lastAdd

(* updateProfile as any consumer of the context can call it, the profile
   loaded or not *)
UpdateProfileSession ==
    \E cur \in Currencies, ok \in BOOLEAN :
        LET newProfile == [profile EXCEPT !.currency = cur]
        IN /\ ~showDialog
           /\ updateProfile(newProfile, ok)
           /\ lastCall' = Called("updateProfile", ProfileInput(newProfile),
                                 TRUE, ok, ProfileError(newProfile, ok))
           /\ UNCHANGED <<refreshes, showDialog, lastAdd>>

AddSession ==
    \E ok \in BOOLEAN :
        /\ DashboardShown
        /\ handleAddTransaction(SessionTx, ok)
        /\ lastCall' = Called("handleAddTransaction", Added(SessionTx), TRUE,
                              ok, addTransaction(SessionTx, ok).error)
        /\ UNCHANGED lastAdd

UpdateBudgetsSession ==
    \E newLimits \in SessionLimits, ok \in BOOLEAN :
        /\ DashboardShown
        /\ handleUpdateBudgets(newLimits, ok)
        /\ editedLimits' = budgetLimits'
        /\ lastCall' = Called("handleUpdateBudgets", newLimits, TRUE, ok,
                              updateBudgetLimits(newLimits, ok).error)
        /\ UNCHANGED <<isEditing, lastAdd>>

InjectDemoDataSession ==
    \E confirmed \in BOOLEAN, okTx \in BOOLEAN, okBudgets \in BOOLEAN,
       okSettings \in BOOLEAN :
        /\ DashboardShown
        /\ handleInjectDemoData(confirmed, okTx, okBudgets, okSettings,
                                2, 43200000)
        /\ lastCall' = Called("handleInjectDemoData", DemoRows, confirmed,
                              okTx /\ okBudgets /\ okSettings,
                              IF confirmed
                              THEN injectDemoData(okTx, okBudgets,
                                                  okSettings).error
                              ELSE "")
        /\ UNCHANGED lastAdd

SessionExpiresSession ==
    /\ sessionExpires
    /\ lastCall' = Called("sessionExpires", <<>>, TRUE, TRUE, "")
    /\ UNCHANGED lastAdd

(* SpecSession: the profile from the first load of the page on: fetched,
   the wizard finished, the tour prompted, the profile saved *)
NextSession ==
    \/ RefreshReadSession \/ RefreshResolveSession \/ FinishSession
    \/ TimeoutSession \/ StartTourSession \/ SkipTourSession
    \/ UpdateProfileSession

SpecSession == InitSession /\ [][NextSession]_vars

(* SpecDemo: the dashboard of a user whose profile is loaded: transactions
   and limits are saved, demo data is injected, the page reloaded and its
   data loaded again *)
InitDemo == InitWith({0}, {2}, {43200000})

NextDemo ==
    \/ AddSession \/ UpdateBudgetsSession \/ InjectDemoDataSession
    \/ RefreshReadSession \/ RefreshResolveSession \/ LoadDataSession
    \/ GetTransactionsSession \/ GetBudgetLimitsSession

SpecDemo == InitDemo /\ [][NextDemo]_vars

(* SpecAnon: the session expires while the dashboard is used.  From then on
   the user reloads the page, saves limits and profile, injects demo data
   and goes through the wizard again. *)
InitAnon == InitWith({0}, {2}, {43200000})

ReloadAnon ==
    /\ ~user
    /\ reload(2, 43200000)
    /\ UNCHANGED <<tz, nextId, dbTransactions, dbLimits, dbProfile, user>>
    /\ lastCall' = Called("reload", <<>>, TRUE, TRUE, "")
    /\ UNCHANGED lastAdd

UpdateBudgetsAnon == ~user /\ UpdateBudgetsSession
UpdateProfileAnon == ~user /\ UpdateProfileSession
InjectDemoDataAnon == ~user /\ InjectDemoDataSession

NextAnon ==
    \/ AddSession \/ SessionExpiresSession \/ ReloadAnon
    \/ UpdateBudgetsAnon \/ UpdateProfileAnon \/ InjectDemoDataAnon
    \/ RefreshReadSession \/ RefreshResolveSession \/ FinishSession
    \/ LoadDataSession \/ GetTransactionsSession \/ GetBudgetLimitsSession

SpecAnon == InitAnon /\ [][NextAnon]_vars

-----------------------------------------------------------------------------
(* Reference sums the claims are stated with: the sum of the amounts of the
   transactions of T that satisfy P, taken over the set of their positions *)

RECURSIVE SumAt(_, _)
SumAt(T, S) ==
    IF S = {} THEN 0
    ELSE LET i == CHOOSE x \in S : TRUE
         IN T[i].amount + SumAt(T, S \ {i})

IncomeOf(T) == SumAt(T, {i \in 1..Len(T) : T[i].type = "income"})
ExpenseOf(T) == SumAt(T, {i \in 1..Len(T) : T[i].type = "expense"})
ExpenseIn(T, cat) ==
    SumAt(T, {i \in 1..Len(T) : T[i].type = "expense" /\ T[i].category = cat})

RECURSIVE SumOfMap(_, _)
SumOfMap(m, S) ==
    IF S = {} THEN 0
    ELSE LET c == CHOOSE x \in S : TRUE
         IN m[c] + SumOfMap(m, S \ {c})

BothBoundsSet == dateRange.from # NoDate /\ dateRange.to # NoDate
FromDay == LocalDay(dateRange.from, tz)
ToDay == LocalDay(dateRange.to, tz)
TxDates == {transactions[i].date : i \in 1..Len(transactions)}

-----------------------------------------------------------------------------
(* C1: for the filtered list T and the initial balance, totalIncome and
   totalExpense are the sums of the income and of the expense amounts of T,
   and totalIncome - totalExpense = totalBalance - initialBalance.  (Spec) *)
C1_BalanceIdentity ==
    LET T == filteredTransactions
    IN /\ stats.totalIncome = IncomeOf(T)
       /\ stats.totalExpense = ExpenseOf(T)
       /\ stats.totalIncome - stats.totalExpense
              = stats.totalBalance - initialBalance

(* an income and an expense pass the filter, a transaction is filtered out,
   and the initial balance is not zero *)
C1_Witness ==
    /\ initialBalance > 0
    /\ IncomeOf(filteredTransactions) > 0
    /\ ExpenseOf(filteredTransactions) > 0
    /\ stats.totalBalance # initialBalance

-----------------------------------------------------------------------------
(* C5: with both bounds set the filtered list holds exactly the
   transactions whose calendar date lies between the from-day and the
   to-day of the user's local calendar, both included; with a bound absent
   the list is returned unchanged.  (Spec)
   The code compares new Date(t.date), which is UTC midnight of the
   transaction's date, with local midnight of the from-day: west of UTC the
   from-day itself is dropped and the day after the to-day is kept. *)
C5_FilterByLocalCalendarDay ==
    /\ BothBoundsSet =>
          filteredTransactions =
              SelectSeq(transactions,
                        LAMBDA t : t.date >= FromDay /\ t.date <= ToDay)
    /\ ~BothBoundsSet => filteredTransactions = transactions

(* C6: a range whose from-day is the earliest transaction date or earlier
   and whose to-day is the latest transaction date or later keeps every
   transaction.  (Spec)  Fails with C5: west of UTC a transaction dated on
   the from-day is dropped. *)
C6_CoveringRangeIsNoOp ==
    (BothBoundsSet /\ \A d \in TxDates : FromDay <= d /\ d <= ToDay)
        => filteredTransactions = transactions

(* C7: when the from-day is later than the date of every transaction the
   filtered list is empty and the stats are the zero-valued stats: no
   income, no expense, savings rate 0, balance = initial balance.  (Spec) *)
C7_FromAfterAllIsEmpty ==
    (BothBoundsSet /\ \A d \in TxDates : FromDay > d) =>
        /\ filteredTransactions = <<>>
        /\ stats.totalIncome = 0
        /\ stats.totalExpense = 0
        /\ FracIsInt(stats.savingsRate, 0)
        /\ stats.totalBalance = initialBalance

(* two transactions, both dated before the from-day, are filtered out *)
C7_Witness ==
    /\ Len(transactions) = 2
    /\ BothBoundsSet
    /\ \A d \in TxDates : FromDay > d
    /\ filteredTransactions = <<>>

(* C8: savingsRate is 0 whenever the total income is 0, otherwise
   (income - expense) / income x 100; income 1000 and expense 400 give 60.
   (Spec) *)
C8_SavingsRate ==
    LET T == filteredTransactions
        income == IncomeOf(T)
        expense == ExpenseOf(T)
        rate == stats.savingsRate
    IN /\ rate.den > 0
       /\ income = 0 => FracIsInt(rate, 0)
       /\ income > 0 => FracEq(rate, Frac((income - expense) * 100, income))
       /\ (income = 1000 /\ expense = 400) => FracIsInt(rate, 60)

(* income 1000, expense 400: the rate is 60 *)
C8_Witness ==
    /\ IncomeOf(filteredTransactions) = 1000
    /\ ExpenseOf(filteredTransactions) = 400
    /\ FracIsInt(stats.savingsRate, 60)

-----------------------------------------------------------------------------
(* The budget claims are stated on T, the filtered list BudgetView is
   given, with the total limit taken as the sum of the listed limits. *)

LimitSum == SumOfMap(budgetLimits, DOMAIN budgetLimits)
OnlyFoodLimit == budgetLimits = [c \in {"Food"} |-> 1000]
TxRange(s) == {s[i] : i \in 1..Len(s)}

(* C2: with a total limit above 0 the overall status is 'danger' exactly
   when total spend / total limit is above 100%, 'warning' exactly when it
   is above 85% and not above 100%, 'good' otherwise; limits {Food: 1000}
   with a Food spend of 1100 give 'danger'.  (SpecBudget) *)
C2_OverallStatus ==
    LET T == filteredTransactions
        spend == ExpenseOf(T)
        status == forecast.status
    IN /\ status \in {"danger", "warning", "good"}
       /\ LimitSum > 0 =>
            /\ status = "danger" <=> spend * 100 > 100 * LimitSum
            /\ status = "warning" <=>
                  (spend * 100 > 85 * LimitSum /\ spend * 100 <= 100 * LimitSum)
            /\ status = "good" <=> spend * 100 <= 85 * LimitSum
       /\ (OnlyFoodLimit /\ ExpenseIn(T, "Food") = 1100) => status = "danger"

(* limits {Food: 1000}, Food spend 1100: danger *)
C2_Witness ==
    /\ OnlyFoodLimit
    /\ ExpenseIn(filteredTransactions, "Food") = 1100
    /\ ExpenseOf(filteredTransactions) = 1100
    /\ forecast.status = "danger"

(* the case of C3: limits {Food: 1000} and a single Food expense of 850 *)
C3_Case ==
    /\ OnlyFoodLimit
    /\ Len(filteredTransactions) = 1
    /\ filteredTransactions[1].type = "expense"
    /\ filteredTransactions[1].category = "Food"
    /\ filteredTransactions[1].amount = 850

(* C3 as claimed: in that case the percent is 85 and the status is
   'warning'.  (SpecBudget) *)
C3_EightyFiveIsWarning ==
    C3_Case =>
        /\ FracIsInt(forecast.percentUsed, 85)
        /\ FracIsInt(CategoryPercent(filteredTransactions, budgetLimits, "Food"), 85)
        /\ forecast.status = "warning"

(* C3 amended: in that case the percent is 85 and the status is 'good',
   'warning' needing a percent strictly above 85.  (SpecBudget) *)
C3_EightyFiveIsGood ==
    C3_Case =>
        /\ FracIsInt(forecast.percentUsed, 85)
        /\ FracIsInt(CategoryPercent(filteredTransactions, budgetLimits, "Food"), 85)
        /\ forecast.status = "good"

C3_Witness == C3_Case /\ forecast.status = "good"

(* C4 as claimed: for each listed category the percent is
   spend / limit x 100 whenever limit > 0, for every spend; with limit 0 it
   is 100 if spend > 0 and 0 if spend = 0.  (SpecBudget) *)
C4_PercentOfLimit ==
    \A cat \in categories :
        LET spend == ExpenseIn(filteredTransactions, cat)
            limit == budgetLimits[cat]
            percent == CategoryPercent(filteredTransactions, budgetLimits, cat)
        IN /\ limit > 0 => FracEq(percent, Frac(spend * 100, limit))
           /\ limit = 0 => FracIsInt(percent, IF spend > 0 THEN 100 ELSE 0)

(* C4 amended: with limit > 0 the percent is spend / limit x 100 capped at
   100, so 100 for every spend above the limit; the zero-limit case is as
   claimed.  (SpecBudget) *)
C4_PercentOfLimitCapped ==
    \A cat \in categories :
        LET spend == ExpenseIn(filteredTransactions, cat)
            limit == budgetLimits[cat]
            percent == CategoryPercent(filteredTransactions, budgetLimits, cat)
        IN /\ percent.den > 0
           /\ (limit > 0 /\ spend <= limit) =>
                 FracEq(percent, Frac(spend * 100, limit))
           /\ (limit > 0 /\ spend > limit) => FracIsInt(percent, 100)
           /\ limit = 0 => FracIsInt(percent, IF spend > 0 THEN 100 ELSE 0)

(* a category spent above its limit shows 100, while another one with a
   zero limit and an expense shows 100 too *)
C4_Witness ==
    /\ \E cat \in categories :
          /\ budgetLimits[cat] > 0
          /\ ExpenseIn(filteredTransactions, cat) > budgetLimits[cat]
          /\ FracIsInt(CategoryPercent(filteredTransactions, budgetLimits, cat), 100)
    /\ \E cat \in categories :
          /\ budgetLimits[cat] = 0
          /\ ExpenseIn(filteredTransactions, cat) > 0

(* C9: the spend of a category is the sum of the amounts of the expenses
   carrying exactly that label, income never contributes, a category with
   no expense has spend 0, and the per-category spends add up to the total
   spend.  (SpecBudget) *)
C9_SpendPerCategory ==
    LET T == filteredTransactions
        m == budgetStats.spentByCategory
    IN /\ \A cat \in BudgetCategories :
            /\ SpentByCategory(T, cat) = ExpenseIn(T, cat)
            /\ (\A i \in 1..Len(T) :
                    T[i].type = "expense" => T[i].category # cat)
                 => SpentByCategory(T, cat) = 0
       /\ SumOfMap(m, DOMAIN m) = budgetStats.totalSpent
       /\ budgetStats.totalSpent = ExpenseOf(T)

(* an income in Food contributes nothing to Food, an expense in Other
   makes the whole total *)
C9_Witness ==
    LET T == filteredTransactions
    IN /\ \E i \in 1..Len(T) : T[i].type = "income" /\ T[i].category = "Food"
       /\ SpentByCategory(T, "Food") = 0
       /\ SpentByCategory(T, "Other") > 0
       /\ budgetStats.totalSpent = SpentByCategory(T, "Other")

(* C10: a step that adds or removes one expense of a category without an
   entry in budgetLimits changes no listed category's percent and not the
   overall status.  (SpecBudget)
   The code adds every expense to totalSpent, whatever its category, and
   compares it with the sum of the listed limits. *)
UntrackedExpenseStep ==
    /\ budgetLimits' = budgetLimits
    /\ \E x \in TxRange(transactions) \cup TxRange(transactions') :
          /\ x.type = "expense"
          /\ x.category \notin DOMAIN budgetLimits
          /\ \/ /\ x \notin TxRange(transactions)
                /\ TxRange(transactions') = TxRange(transactions) \cup {x}
             \/ /\ x \notin TxRange(transactions')
                /\ TxRange(transactions) = TxRange(transactions') \cup {x}

C10_UntrackedIsFramed ==
    [][UntrackedExpenseStep =>
          /\ \A cat \in categories :
                CategoryPercent(filteredTransactions, budgetLimits, cat)'
                    = CategoryPercent(filteredTransactions, budgetLimits, cat)
          /\ forecast.status' = forecast.status]_vars

-----------------------------------------------------------------------------
(* C11: the total limit of the overall status is the sum of all the limits
   of budgetLimits; a category listed with limit 0 adds nothing to it, and
   its expenses are still part of the total spend.  (SpecBudget) *)
C11_TotalLimitIsSumOfLimits ==
    LET T == filteredTransactions
        positive == {c \in DOMAIN budgetLimits : budgetLimits[c] > 0}
    IN /\ forecast.totalBudget = LimitSum
       /\ forecast.totalBudget = SumOfMap(budgetLimits, positive)
       /\ budgetStats.totalSpent = ExpenseOf(T)
       /\ forecast.remainingBudget = LimitSum - ExpenseOf(T)

(* Food is listed with limit 0 and has an expense in the range, Other has
   a limit of 1000: the total limit is 1000 and the Food expense is spent *)
C11_Witness ==
    /\ DOMAIN budgetLimits = {"Food", "Other"}
    /\ budgetLimits["Food"] = 0
    /\ budgetLimits["Other"] = 1000
    /\ ExpenseIn(filteredTransactions, "Food") > 0
    /\ forecast.totalBudget = 1000
    /\ budgetStats.totalSpent >= ExpenseIn(filteredTransactions, "Food")

-----------------------------------------------------------------------------
(* Day-groups: the orders a list can be passed in, and sums over groups *)

Orders(T) ==
    {[i \in 1..Len(T) |-> T[p[i]]] :
        p \in {q \in [1..Len(T) -> 1..Len(T)] :
                  \A i, j \in 1..Len(T) : q[i] = q[j] => i = j}}

RECURSIVE GroupAmounts(_)
GroupAmounts(G) ==
    IF G = <<>> THEN 0
    ELSE SumAt(Head(G).transactions, 1..Len(Head(G).transactions))
             + GroupAmounts(Tail(G))

DatesOf(T) == {T[i].date : i \in 1..Len(T)}

(* C12: grouping by day partitions the list it is given: every transaction
   is in exactly one day-group, at exactly one position, and that group is
   the group of its own date; the amounts of all the groups add up to the
   amounts of the list.  (SpecList; the list is the filtered list, in every
   order) *)
C12_GroupingPartitions ==
    \A T \in Orders(filteredTransactions) :
        LET G == GroupedTransactions(T)
            Places(t) == {<<k, j>> \in (1..Len(G)) \X (1..Len(T)) :
                             /\ j <= Len(G[k].transactions)
                             /\ G[k].transactions[j] = t}
        IN /\ \A i \in 1..Len(T) :
                  /\ Cardinality(Places(T[i])) = 1
                  /\ \A pl \in Places(T[i]) : G[pl[1]].date = T[i].date
           /\ \A k \in 1..Len(G) :
                  \A j \in 1..Len(G[k].transactions) :
                      G[k].transactions[j] \in TxRange(T)
           /\ GroupAmounts(G) = SumAt(T, 1..Len(T))

(* two transactions of one day are shown: one group holds both *)
C12_Witness ==
    /\ Len(filteredTransactions) = 2
    /\ Len(groupedTransactions) = 1
    /\ Len(groupedTransactions[1].transactions) = 2
    /\ GroupAmounts(groupedTransactions) = 800

(* C13: for the list in any order, the day-groups are in strictly
   descending order of date, there is one group for each distinct date of
   the list, and the dailyExpense of a group is the sum of the expense
   amounts dated on the group's date, incomes left out.  (SpecList) *)
C13_GroupsDescendingOnePerDate ==
    \A T \in Orders(filteredTransactions) :
        LET G == GroupedTransactions(T)
        IN /\ \A k \in 1..(Len(G) - 1) : G[k].date > G[k + 1].date
           /\ {G[k].date : k \in 1..Len(G)} = DatesOf(T)
           /\ Len(G) = Cardinality(DatesOf(T))
           /\ \A k \in 1..Len(G) :
                  G[k].dailyExpense =
                      SumAt(T, {i \in 1..Len(T) :
                                   /\ T[i].type = "expense"
                                   /\ T[i].date = G[k].date})

(* an income and an expense of two different days are shown; passed oldest
   first they are grouped newest first, the income's day with dailyExpense 0 *)
C13_Witness ==
    \E T \in Orders(filteredTransactions) :
        LET G == GroupedTransactions(T)
        IN /\ Len(T) = 2
           /\ T[1].date < T[2].date
           /\ T[1].type = "income"
           /\ T[2].type = "expense"
           /\ Len(G) = 2
           /\ G[1].date = T[2].date
           /\ G[1].dailyExpense = T[2].amount
           /\ G[2].dailyExpense = 0

-----------------------------------------------------------------------------
(* C15: when the list to aggregate is empty, nothing is divided by zero and
   totalIncome = 0, totalExpense = 0, totalBalance = initialBalance,
   savingsRate = 0, there is no day-group, and for every BudgetLimits the
   spend and the percent of every category are 0 and the overall status is
   'good'.  (SpecList) *)
C15_EmptyListAggregates ==
    LET T == filteredTransactions
    IN T = <<>> =>
        /\ stats.totalIncome = 0
        /\ stats.totalExpense = 0
        /\ stats.totalBalance = initialBalance
        /\ stats.savingsRate.den # 0
        /\ FracIsInt(stats.savingsRate, 0)
        /\ groupedTransactions = <<>>
        /\ \A limits \in LimitInputs(BudgetCategories, LimitValues) :
              /\ Forecast(T, limits).percentUsed.den # 0
              /\ Forecast(T, limits).status = "good"
              /\ TotalSpent(T) = 0
              /\ \A cat \in DOMAIN limits :
                     /\ SpentByCategory(T, cat) = 0
                     /\ CategoryPercent(T, limits, cat).den # 0
                     /\ FracIsInt(CategoryPercent(T, limits, cat), 0)

(* transactions exist but none is in the range, with an initial balance *)
C15_Witness ==
    /\ transactions # <<>>
    /\ filteredTransactions = <<>>
    /\ initialBalance = 500
    /\ stats.totalBalance = 500
    /\ groupedTransactions = <<>>

-----------------------------------------------------------------------------
(* C14: when a transaction x has been added to the list T and then deleted
   by its id, both with success, the list is T again and the stats are the
   stats of T: nothing of x remains.  (SpecUndo) *)
C14_AddThenDeleteRestores ==
    lastAdd.undone =>
        /\ transactions = lastAdd.before
        /\ stats = StatsOf(FilterByRange(lastAdd.before, dateRange, tz),
                           initialBalance)
        /\ \A i \in 1..Len(transactions) : transactions[i].id # lastAdd.id

(* x was added to a list of one transaction and deleted again *)
C14_Witness ==
    /\ lastAdd.undone
    /\ Len(lastAdd.before) = 1
    /\ lastAdd.id = 2
    /\ transactions = lastAdd.before

-----------------------------------------------------------------------------
(* C19: from the initial range on, after any clicks on days and any changes
   of the displayed month, when both bounds of dateRange are set the from
   instant is not later than the to instant.  (SpecCalendar) *)
C19_FromNotAfterTo ==
    BothBoundsSet => dateRange.from <= dateRange.to

(* the first day of the previous month was clicked after the range had been
   set in the current month *)
C19_Witness ==
    /\ currentMonth = -1
    /\ BothBoundsSet
    /\ FromDay = 1 - MaxDay
    /\ ToDay = 1 - MaxDay
    /\ dateRange.from = LocalMidnight(1 - MaxDay, tz)

-----------------------------------------------------------------------------
(* C20: every limit held in the budget editor, and every limit handed to
   onUpdateLimits and stored by it, is a number that is not negative,
   whatever is typed.  (SpecEditor)
   parseFloat('-5') || 0 is -5: handleLimitChange and
   handleDailyTargetChange let a negative limit into the editor, and
   handleSave passes it on. *)
C20_LimitsNotNegative ==
    /\ \A c \in DOMAIN editedLimits : editedLimits[c] >= 0
    /\ \A c \in DOMAIN budgetLimits : budgetLimits[c] >= 0
    /\ \A c \in DOMAIN dbLimits : dbLimits[c] >= 0

-----------------------------------------------------------------------------
(* Loads and their fetches *)

LoadIds == 1..Len(loads)
FetchFailed(load) ==
    \/ load.tx.state \in {"empty", "rejected"}
    \/ load.limits.state \in {"empty", "rejected"}
ZeroStats ==
    /\ stats.totalIncome = 0
    /\ stats.totalExpense = 0
    /\ stats.totalBalance = initialBalance
    /\ FracIsInt(stats.savingsRate, 0)
StatsDefined ==
    /\ stats.savingsRate.den # 0
    /\ forecast.percentUsed.den # 0
    /\ \A cat \in categories :
           CategoryPercent(filteredTransactions, budgetLimits, cat).den # 0

(* C16: a load whose results have replaced transactions and budgetLimits
   has both its fetches resolved, and a step of a load that does not apply
   it (a fetch of it settles while the other is pending, or it ends in its
   catch) leaves transactions and budgetLimits as they are.  (SpecLoad) *)
C16_LoadAppliesBothOrNothing ==
    /\ [](\A i \in LoadIds :
             loads[i].phase = "applied" =>
                 IsResolved(loads[i].tx) /\ IsResolved(loads[i].limits))
    /\ [][(/\ loads' # loads
           /\ \A i \in LoadIds :
                  loads[i].phase = "fetching" => loads'[i].phase # "applied")
          => UNCHANGED <<transactions, budgetLimits>>]_vars

(* the transactions of a load have been fetched and differ from the list,
   the fetch of its limits is pending: the list has not been replaced *)
C16_Witness ==
    \E i \in LoadIds :
        /\ loads[i].phase = "fetching"
        /\ loads[i].tx.state = "rows"
        /\ loads[i].limits.state = "pending"
        /\ loads[i].tx.value # <<>>
        /\ transactions = <<>>

(* C17: a load of which a fetch has failed ends applied or caught, with
   dataLoading false; a fetch that failed with an empty result leaves its
   collection empty, a fetch that threw leaves both collections as they
   were; and in every state after such a load the stats have no zero
   denominator and are the zero-valued stats when the list is empty.
   (SpecLoad) *)
C17_FailedFetchTolerated ==
    /\ []((\E i \in LoadIds :
              loads[i].phase # "fetching" /\ FetchFailed(loads[i]))
          => /\ StatsDefined
             /\ filteredTransactions = <<>> =>
                    ZeroStats /\ groupedTransactions = <<>>
             /\ budgetLimits = <<>> => forecast.status = "good")
    /\ [][\A i \in LoadIds :
              (/\ loads[i].phase = "fetching"
               /\ loads'[i].phase # "fetching"
               /\ FetchFailed(loads'[i]))
              => /\ loads'[i].phase \in {"applied", "caught"}
                 /\ dataLoading' = FALSE
                 /\ loads'[i].phase = "caught" =>
                        UNCHANGED <<transactions, budgetLimits>>
                 /\ (loads'[i].phase = "applied" /\ loads'[i].tx.state = "empty")
                        => transactions' = <<>>
                 /\ (loads'[i].phase = "applied" /\ loads'[i].limits.state = "empty")
                        => budgetLimits' = <<>>]_vars

(* getTransactions failed with an empty result while the store holds a row:
   the load was applied, the list is empty, dataLoading is false *)
C17_Witness ==
    \E i \in LoadIds :
        /\ loads[i].phase = "applied"
        /\ loads[i].tx.state = "empty"
        /\ dbTransactions # {}
        /\ transactions = <<>>
        /\ ZeroStats
        /\ ~dataLoading

-----------------------------------------------------------------------------
(* C18: the rows with one id are equal wherever they are held (the list,
   the store, a fetched result) and stay equal from one state to the next:
   as long as a transaction exists its amount, type, category, description
   and date are those it was created with.  (SpecProfile) *)
AllRows ==
    TxRange(transactions) \cup dbTransactions
        \cup UNION {TxRange(loads[i].tx.value) : i \in LoadIds}

C18_TransactionsImmutable ==
    /\ [](\A t, u \in AllRows : t.id = u.id => t = u)
    /\ [][\A t \in AllRows : \A u \in AllRows' : t.id = u.id => t = u]_vars

(* the currency has been changed and a load has since been applied with a
   transaction in the store *)
C18_Witness ==
    /\ currency = "USD"
    /\ \E i \in LoadIds : loads[i].phase = "applied"
    /\ transactions # <<>>
    /\ TxRange(transactions) = dbTransactions

-----------------------------------------------------------------------------
(* C30: when the total limit is 0, with no category or with every limit 0,
   the overall percent used is 0 and the overall status is 'good' whatever
   was spent, and the remaining budget is minus the total spent.
   (SpecBudget) *)
C30_NoBudgetIsGood ==
    forecast.totalBudget = 0 =>
        /\ FracEq(forecast.percentUsed, Frac(0, 1))
        /\ forecast.status = "good"
        /\ forecast.remainingBudget = 0 - ExpenseOf(filteredTransactions)

(* two categories with limit 0 and an expense in the range *)
C30_Witness ==
    /\ Cardinality(DOMAIN budgetLimits) = 2
    /\ forecast.totalBudget = 0
    /\ ExpenseOf(filteredTransactions) > 0
    /\ forecast.remainingBudget < 0

-----------------------------------------------------------------------------
(* C21: right after a handler has written to the store with success, and
   with no load run, the local state shows the change: after an add the row
   the store returned is in the list, after a confirmed delete no row of the
   list has the deleted id, after a budget update budgetLimits is the limits
   that were submitted.  (SpecMutate) *)
C21_MutationShownLocally ==
    /\ (lastCall.handler = "handleAddTransaction" /\ lastCall.error = "")
           => lastCall.input \in TxRange(transactions)
    /\ (/\ lastCall.handler = "handleDeleteTransaction"
        /\ lastCall.confirmed /\ lastCall.error = "")
           => \A t \in TxRange(transactions) : t.id # lastCall.input
    /\ (lastCall.handler = "handleUpdateBudgets" /\ lastCall.error = "")
           => budgetLimits = lastCall.input

(* the limit of Food has just been saved while the list holds a row *)
C21_Witness ==
    /\ lastCall.handler = "handleUpdateBudgets"
    /\ lastCall.error = ""
    /\ lastCall.input # <<>>
    /\ budgetLimits = lastCall.input
    /\ dbLimits = lastCall.input
    /\ transactions # <<>>

-----------------------------------------------------------------------------
(* C29: a step of a handler whose backend call fails leaves transactions,
   budgetLimits and the profile as they were; a delete the user declines
   leaves the store and the list as they were even when the store would
   have deleted the row; and actionLoading is false after every add.
   (SpecMutate) *)
C29_FailureChangesNothing ==
    [][/\ lastCall'.error # "" =>
              UNCHANGED <<transactions, budgetLimits, profileLoaded, currency,
                          initialBalance, onboardingCompleted, tourCompleted>>
       /\ (lastCall'.handler = "handleDeleteTransaction" /\ ~lastCall'.confirmed)
              => UNCHANGED <<transactions, dbTransactions, dbLimits, dbProfile>>
       /\ lastCall'.handler = "handleAddTransaction" => ~actionLoading']_vars

(* an add has just failed while the list and the store hold a row *)
C29_Witness ==
    /\ lastCall.handler = "handleAddTransaction"
    /\ lastCall.error # ""
    /\ ~actionLoading
    /\ Len(transactions) = 1
    /\ TxRange(transactions) = dbTransactions

-----------------------------------------------------------------------------
(* C26: while the editor is closed the edited limits are the budgetLimits
   prop; while it is open, a step that changes the prop leaves the edited
   limits as they are; and Cancel closes the editor with the edited limits
   back at budgetLimits, the limits held by AppContent and by the store
   unchanged.  (SpecSync) *)
C26_EditorSync ==
    /\ [](~isEditing => editedLimits = budgetLimits)
    /\ [][(isEditing /\ isEditing' /\ budgetLimits' # budgetLimits)
              => editedLimits' = editedLimits]_vars
    /\ [][lastCall'.handler = "cancelEditing"
              => /\ ~isEditing'
                 /\ editedLimits' = budgetLimits
                 /\ UNCHANGED <<budgetLimits, dbLimits>>]_vars

(* a load has been applied while the editor was open: the prop is the
   empty limits the load had fetched, the editor still holds the edit *)
C26_Witness ==
    /\ isEditing
    /\ \E i \in LoadIds : loads[i].phase = "applied"
    /\ budgetLimits = <<>>
    /\ DOMAIN editedLimits = {"Food"}
    /\ editedLimits["Food"] = 5
    /\ DOMAIN dbLimits = {"Food"}

-----------------------------------------------------------------------------
(* C27: a step of handleSave that the store answers with success ends with
   budgetLimits equal to the limits of the store, which is what
   getBudgetLimits returns.  (SpecEditor)
   The upsert writes the categories of the edit and deletes no row: a
   category deleted in the editor stays in the store, and an edit without a
   category does not reach the store at all. *)
C27_SavedLimitsAreStoredLimits ==
    [][handleSave(TRUE) => budgetLimits' = dbLimits']_vars

-----------------------------------------------------------------------------
(* C28: when the last add or delete succeeded while a load was pending and
   no load is pending any more, the list still shows it: the added row is
   in the list, no row of the list has the deleted id.  (SpecRace)
   loadData replaces the list with what getTransactions returned, which may
   have been read from the store before the handler wrote to it. *)
C28_NoUpdateLostToLoad ==
    (/\ lastCall.handler \in {"handleAddTransaction", "handleDeleteTransaction"}
     /\ lastCall.confirmed
     /\ lastCall.error = ""
     /\ lastCall.input.pending
     /\ ~LoadPending)
        => IF lastCall.handler = "handleAddTransaction"
           THEN lastCall.input.row \in TxRange(transactions)
           ELSE \A t \in TxRange(transactions) : t.id # lastCall.input.row.id

-----------------------------------------------------------------------------
(* C22: a step in which the user confirms handleInjectDemoData and
   injectDemoData succeeds leaves exactly the demo transactions in the
   store, none of the rows stored before, and the demo limits as the
   stored limits.  (SpecDemo)
   injectDemoData inserts the demo rows next to the stored ones and upserts
   the demo limits over the stored ones. *)
C22_DemoDataOverwrites ==
    [][(/\ lastCall'.handler = "handleInjectDemoData"
        /\ lastCall'.confirmed
        /\ lastCall'.error = "")
           => /\ dbTransactions' = DemoRows
              /\ dbLimits' = DemoBudgets]_vars

-----------------------------------------------------------------------------
(* C24: while nobody is signed in, a step writes nothing to the three
   tables; addTransaction, updateBudgetLimits, updateUserSettings (called by
   updateProfile with a profile) and injectDemoData (once confirmed) fail
   with 'User not authenticated'; a getTransactions or getBudgetLimits that
   settles settles with the empty result, and a getUserSettings that is
   answered is answered with DEFAULT_SETTINGS.  (SpecAnon) *)
C24_NoUserNoWrite ==
    [][~user =>
        /\ UNCHANGED <<dbTransactions, dbLimits, dbProfile>>
        /\ (/\ lastCall'.handler \in {"handleAddTransaction",
                                      "handleUpdateBudgets",
                                      "handleInjectDemoData"}
            /\ lastCall'.confirmed)
               => lastCall'.error = NotAuthenticated
        /\ (/\ lastCall'.handler \in {"updateProfile", "handleFinish"}
            /\ profileLoaded)
               => lastCall'.error = NotAuthenticated
        /\ lastCall'.handler = "getTransactions"
               => \A i \in DOMAIN loads :
                      loads[i].tx.state = "pending"
                          => loads'[i].tx.state \in {"pending", "empty"}
        /\ lastCall'.handler = "getBudgetLimits"
               => \A i \in DOMAIN loads :
                      loads[i].limits.state = "pending"
                          => loads'[i].limits.state \in {"pending", "empty"}
        /\ lastCall'.handler = "getUserSettings"
               => \A i \in DOMAIN refreshes :
                      refreshes[i].state = "reading"
                          => \/ refreshes'[i] = refreshes[i]
                             \/ refreshes'[i].value = DEFAULT_SETTINGS
      ]_vars

(* nobody is signed in and the store holds a row; a load has ended with the
   empty results and left the list empty, and an add has just failed for
   the lack of a user *)
C24_Witness ==
    /\ ~user
    /\ dbTransactions # {}
    /\ \E i \in DOMAIN loads : loads[i].phase = "applied"
    /\ transactions = <<>>
    /\ lastCall.handler = "handleAddTransaction"
    /\ lastCall.error = NotAuthenticated

-----------------------------------------------------------------------------
(* C23: in every step that calls updateProfile (from the settings, the
   wizard or the prompt of the tour): convertDataCurrency is among the calls
   exactly when there is a profile and its currency differs from the new
   one, and it comes before updateUserSettings; the profile changes only
   when updateUserSettings was called and succeeded, and then it is the new
   profile; without a profile no call is made and nothing changes.
   (SpecSession) *)
C23_UpdateProfileCalls ==
    [][lastCall'.handler \in {"updateProfile", "handleFinish", "startTour",
                              "skipTour"} =>
        LET calls == lastCall'.input.calls
            newProfile == lastCall'.input.newProfile
            Converts == \E i \in DOMAIN calls : calls[i] = "convertDataCurrency"
            Updates == \E i \in DOMAIN calls : calls[i] = "updateUserSettings"
        IN /\ Converts <=> (profileLoaded /\ currency # newProfile.currency)
           /\ Converts => Updates
           /\ \A i, j \in DOMAIN calls :
                  (calls[i] = "convertDataCurrency"
                      /\ calls[j] = "updateUserSettings") => i < j
           /\ (profileLoaded' # profileLoaded \/ profile' # profile)
                  => /\ Updates
                     /\ lastCall'.error = ""
                     /\ dbProfile' = newProfile
                     /\ profile' = newProfile
           /\ ~profileLoaded
                  => /\ calls = <<>>
                     /\ UNCHANGED <<transactions, budgetLimits, dateRange,
                                    initialBalance, tz, nextId, currency,
                                    dbTransactions, dbLimits, loads,
                                    dataLoading, currentMonth, isEditing,
                                    editedLimits, actionLoading, sessionVars>>
      ]_vars

(* the settings have just changed the currency of a loaded profile:
   convertDataCurrency, then updateUserSettings, were called and the
   profile was replaced *)
C23_Witness ==
    /\ lastCall.handler = "updateProfile"
    /\ lastCall.input.calls = <<"convertDataCurrency", "updateUserSettings">>
    /\ lastCall.error = ""
    /\ profileLoaded
    /\ profile = lastCall.input.newProfile
    /\ currency = "USD"

-----------------------------------------------------------------------------
(* C25: a step in which the user chooses Start or Skip closes the prompt of
   the tour, and once the stored profile carries tourCompleted no step shows
   the prompt.  (SpecSession)
   The refreshProfile that onFinish starts can read the profile before the
   mark is stored and deliver it afterwards: setProfile then puts back a
   profile without the mark and AppTour's effect sets its timeout again. *)
C25_PromptNeverAgain ==
    /\ [][lastCall'.handler \in {"startTour", "skipTour"} => ~showDialog']_vars
    /\ [][dbProfile.tourCompleted => ~showDialog']_vars
====
